---- MODULE Spec2Model ----
(***************************************************************************)
(* GPS stability / corridor intelligence pipeline.                         *)
(*                                                                         *)
(* The model covers the stores (Vehicle, Trip, GPSPoint, Drop, Corridor,   *)
(* Traversal, CorridorStats, Alert), the ingestion request handler         *)
(* (POST /api/ingest), the drop detector, the corridor resolver, the       *)
(* baseline computation, the alert service, the batch routes, the alert    *)
(* stream and the CSV simulator.                                           *)
(*                                                                         *)
(* Units: time in whole seconds since the epoch; positions are metres      *)
(* along the equator, eastwards; speeds are metres per hour (km/h * 1000)  *)
(* so that the arithmetic of the code stays exact over the integers.       *)
(* An async handler is split at its await points: each action is the code  *)
(* that runs between two awaits, together with the store call awaited.     *)
(***************************************************************************)
EXTENDS Integers, Sequences, FiniteSets, TLC

VARIABLES
  tauShort,           \* process.env.TAU_SHORT, read per request
  delayThresholdMin,  \* process.env.DELAY_THRESHOLD_MINUTES
  vehicles,           \* Vehicle table: sequence of names, id = index
  trips,              \* Trip table: sequence of rows, id = index
  gpsPoints,          \* GPSPoint table
  drops,              \* Drop table
  corridors,          \* Corridor table: sequence of keys, id = index
  traversals,         \* Traversal table
  corridorStats,      \* CorridorStats table, unique on (corridorId, bucketHour)
  alerts,             \* Alert table, id = index
  published,          \* alerts handed to alertEmitter.emit, in order
  proc,               \* the requests / calls in flight, one record each
  nCalls,             \* number of requests and calls started so far
  sim                 \* the simulator object and its replay loops

vars == <<tauShort, delayThresholdMin, vehicles, trips, gpsPoints, drops,
          corridors, traversals, corridorStats, alerts, published, proc, nCalls,
          sim>>

config == <<tauShort, delayThresholdMin>>

----------------------------------------------------------------------------
(* Bounds of the model                                                     *)

MaxFlowCalls == 2      \* ingestion requests, one at a time
MaxConcCalls == 2      \* ingestion requests, concurrent
MaxBaseCalls == 6      \* ingestion requests that build up one corridor
MaxAlertCalls == 3     \* checkAndCreateAlerts calls, one at a time
MaxRaceCalls == 2      \* checkAndCreateAlerts calls, concurrent
MaxFailCalls == 2      \* ingestion requests against a failing store
MaxProcs == 2          \* requests / calls in flight at the same time
MaxTripCalls == 2      \* ingestion requests that build up trips
MaxRecomputeCalls == 6 \* ingestion requests and batch recomputes, one at a time
MaxResetCalls == 3     \* batch recomputes beside one database reset
MaxStreamCalls == 3    \* checkAndCreateAlerts calls beside one stream client
MaxSpeedCalls == 3     \* ingest requests on the store that already holds traversals
MaxBatchCalls == 4     \* ingest requests and batch checks, one at a time
MaxSimCalls == 3       \* start, stop and force-stop calls to the simulator
MaxPairCalls == 2      \* ingest requests of the two lanes in flight together
MaxSeeded == 18        \* traversals the store already holds
MaxConnects == 2       \* connections of the stream client

(* Program constants                                                       *)

TAU_SHORT_DEFAULT == 60
LONG_GAP_SEC == 600
TRIP_GAP_MINUTES == 20
MIN_SAMPLES_FOR_HOURLY == 5
DELAY_THRESHOLD_DEFAULT == 15
MIN_DISTANCE_M == 10
MAX_SPEED_MH == 200000
GLOBAL_BUCKET == 0 - 1
CellSizeM == 2000
LAT_MAX == 90
LON_MAX == 180
MetresPerDegree == 111320    \* one degree of longitude on the equator
MAX_SLEEP_MS == 300000 \* longest simulated gap the replay waits out
PARALLEL_BATCHES == 2  \* ingest requests the simulator keeps in flight together

----------------------------------------------------------------------------
(* Arithmetic helpers                                                      *)

Abs(x) == IF x < 0 THEN 0 - x ELSE x

Max(a, b) == IF a >= b THEN a ELSE b

\* Math.round of the half-integer x2/2 (rounds .5 upwards)
MathRound2(x2) == (x2 + 1) \div 2

\* Array.prototype.sort((a, b) => a - b) on numbers: stable insertion
InsertNum(sorted, x) ==
  LET k == Cardinality({i \in 1..Len(sorted) : sorted[i] <= x})
  IN  SubSeq(sorted, 1, k) \o <<x>> \o SubSeq(sorted, k + 1, Len(sorted))

RECURSIVE SortNums(_)
SortNums(s) ==
  IF s = <<>> THEN <<>>
  ELSE InsertNum(SortNums(SubSeq(s, 1, Len(s) - 1)), s[Len(s)])

\* sort((a, b) => a.ts - b.ts): stable, so equal timestamps keep their order
InsertByTs(sorted, x) ==
  LET k == Cardinality({i \in 1..Len(sorted) : sorted[i].ts <= x.ts})
  IN  SubSeq(sorted, 1, k) \o <<x>> \o SubSeq(sorted, k + 1, Len(sorted))

RECURSIVE SortByTs(_)
SortByTs(s) ==
  IF s = <<>> THEN <<>>
  ELSE InsertByTs(SortByTs(SubSeq(s, 1, Len(s) - 1)), s[Len(s)])

\* Array.prototype.find over the positions I that satisfy the predicate:
\* <<>> when none does, else <<first match>>
FirstAt(s, I) ==
  IF I = {} THEN <<>>
  ELSE <<s[CHOOSE i \in I : \A j \in I : i <= j]>>

\* baselines.find(b => b.bucketHour === bucketHour)
FindBucket(baselines, bucketHour) ==
  FirstAt(baselines, {i \in 1..Len(baselines) : baselines[i].bucketHour = bucketHour})

----------------------------------------------------------------------------
(* Statistics primitives (gps-processing)                                  *)

\* twice the median, so that the mean of the two middle values stays integral
median2(values) ==
  IF Len(values) = 0 THEN 0
  ELSE LET sorted == SortNums(values)
           mid == Len(sorted) \div 2      \* 0-based index of the code
       IN  IF Len(sorted) % 2 = 0
           THEN sorted[mid] + sorted[mid + 1]
           ELSE 2 * sorted[mid + 1]

\* nearest-rank percentile: index = ceil(p/100 * n) - 1 (0-based), floor 0
\* percentile with the rank rounded down
percentileFloor(values, p) ==
  IF Len(values) = 0 THEN 0
  ELSE LET sorted == SortNums(values)
           index == ((p * Len(sorted)) \div 100) - 1
       IN  sorted[Max(0, index) + 1]

percentile(values, p) ==
  IF Len(values) = 0 THEN 0
  ELSE LET sorted == SortNums(values)
           index == ((p * Len(sorted) + 99) \div 100) - 1
       IN  sorted[Max(0, index) + 1]

getHourBucket(ts) == (ts \div 3600) % 24

\* getAlertSeverity with the bands one step too low (high from ratio 1)
getAlertSeverityFromOne(type, deltaValue, thresholdNum, thresholdDen) ==
  LET a == Abs(deltaValue) * thresholdDen
  IN  IF thresholdNum = 0
      THEN (IF a = 0 THEN "low" ELSE "high")
      ELSE IF a >= thresholdNum THEN "high"
      ELSE IF 2 * a >= thresholdNum THEN "medium"
      ELSE "low"

\* getAlertSeverity with exclusive band limits
getAlertSeverityStrict(type, deltaValue, thresholdNum, thresholdDen) ==
  LET a == Abs(deltaValue) * thresholdDen
  IN  IF thresholdNum = 0
      THEN (IF a = 0 THEN "low" ELSE "high")
      ELSE IF a > 2 * thresholdNum THEN "high"
      ELSE IF 2 * a > 3 * thresholdNum THEN "medium"
      ELSE "low"

\* severity from |delta| / threshold, the threshold given as num/den
getAlertSeverity(type, deltaValue, thresholdNum, thresholdDen) ==
  LET a == Abs(deltaValue) * thresholdDen
  IN  IF thresholdNum = 0
      THEN (IF a = 0 THEN "low" ELSE "high")   \* NaN resp. Infinity
      ELSE IF a >= 2 * thresholdNum THEN "high"
      ELSE IF 2 * a >= 3 * thresholdNum THEN "medium"
      ELSE "low"

----------------------------------------------------------------------------
(* Baseline computation (baseline-computation)                             *)

\* the keys of the hourlyBuckets Map, in insertion order
RECURSIVE HourOrder(_)
HourOrder(travs) ==
  IF travs = <<>> THEN <<>>
  ELSE LET before == HourOrder(SubSeq(travs, 1, Len(travs) - 1))
           h == getHourBucket(travs[Len(travs)].startTs)
       IN  IF \E i \in 1..Len(before) : before[i] = h
           THEN before ELSE Append(before, h)

TravelTimes(travs) == [i \in 1..Len(travs) |-> travs[i].travelSec]

Speeds(travs) == [i \in 1..Len(travs) |-> travs[i].avgSpeedKmh]

BaselineOf(corridorId, bucketHour, travs) ==
  [corridorId |-> corridorId,
   bucketHour |-> bucketHour,
   count |-> Len(travs),
   medianTravelSec |-> MathRound2(median2(TravelTimes(travs))),
   p95SpeedKmh |-> percentile(Speeds(travs), 95)]

\* the hourly threshold with a strict comparison
HourlyMinSamplesStrict(n, minSamplesForHourly) == n > minSamplesForHourly

HourlyMinSamples(n, minSamplesForHourly) == n >= minSamplesForHourly

computeBaselines(corridorId, travs, minSamplesForHourly) ==
  LET InHour(h) == SelectSeq(travs, LAMBDA t : getHourBucket(t.startTs) = h)
      hours == SelectSeq(HourOrder(travs),
                 LAMBDA h : HourlyMinSamples(Len(InHour(h)), minSamplesForHourly))
      hourly == [i \in 1..Len(hours) |->
                  BaselineOf(corridorId, hours[i], InHour(hours[i]))]
  IN  IF Len(travs) > 0
      THEN Append(hourly, BaselineOf(corridorId, GLOBAL_BUCKET, travs))
      ELSE hourly

\* getApplicableBaseline that prefers the global row
getApplicableBaselineGlobalFirst(baselines, timestamp) ==
  LET hour == getHourBucket(timestamp)
      globalBaseline == FindBucket(baselines, GLOBAL_BUCKET)
  IN  IF globalBaseline # <<>> THEN globalBaseline
      ELSE FindBucket(baselines, hour)

getApplicableBaseline(baselines, timestamp) ==
  LET hour == getHourBucket(timestamp)
      hourlyBaseline == FindBucket(baselines, hour)
  IN  IF hourlyBaseline # <<>> THEN hourlyBaseline
      ELSE FindBucket(baselines, GLOBAL_BUCKET)

\* checkDelayAlert that flags every travel time not below the median
checkDelayAlertNoThreshold(travelSec, baseline, thresholdMinutes) ==
  LET deltaSec == travelSec - baseline.medianTravelSec
  IN  [isAlert |-> deltaSec >= 0, delta |-> deltaSec]

\* checkDelayAlert with an exclusive boundary
checkDelayAlertStrict(travelSec, baseline, thresholdMinutes) ==
  LET deltaSec == travelSec - baseline.medianTravelSec
      thresholdSec == thresholdMinutes * 60
  IN  [isAlert |-> deltaSec > thresholdSec, delta |-> deltaSec]

checkDelayAlert(travelSec, baseline, thresholdMinutes) ==
  LET deltaSec == travelSec - baseline.medianTravelSec
      thresholdSec == thresholdMinutes * 60
  IN  [isAlert |-> deltaSec >= thresholdSec, delta |-> deltaSec]

\* checkOverspeedAlert with an inclusive boundary
checkOverspeedAlertInclusive(avgSpeedKmh, baseline) ==
  LET deltaSpeedKmh == avgSpeedKmh - baseline.p95SpeedKmh
  IN  [isAlert |-> deltaSpeedKmh >= 0 /\ baseline.p95SpeedKmh > 0,
       delta |-> deltaSpeedKmh]

checkOverspeedAlert(avgSpeedKmh, baseline) ==
  LET deltaSpeedKmh == avgSpeedKmh - baseline.p95SpeedKmh
  IN  [isAlert |-> deltaSpeedKmh > 0 /\ baseline.p95SpeedKmh > 0,
       delta |-> deltaSpeedKmh]

----------------------------------------------------------------------------
(* Drop detector and corridor resolver (gps-processing)                    *)

\* gapSec <= tauShort * 1.2, over the integers
WithinMicro(gapSec, tau) == 5 * gapSec <= 6 * tau

\* the classification with the micro band tested before the ceiling
ClassifyMicroFirst(gapSec, tau) ==
  IF WithinMicro(gapSec, tau) THEN "micro_drop"
  ELSE IF gapSec > LONG_GAP_SEC THEN "long_gap"
  ELSE "weak_signal"

Classify(gapSec, tau) ==
  IF gapSec > LONG_GAP_SEC THEN "long_gap"
  ELSE IF WithinMicro(gapSec, tau) THEN "micro_drop"
  ELSE "weak_signal"

\* the test with the threshold included
IsDropInclusive(gapSec, tau) == gapSec >= tau

IsDrop(gapSec, tau) == gapSec > tau

\* the gaps under 5 minutes between neighbours of the sorted points
ModalGaps(sorted) ==
  LET all == [i \in 1..(Len(sorted) - 1) |-> sorted[i + 1].ts - sorted[i].ts]
  IN  SelectSeq(all, LAMBDA g : g > 0 /\ g < 300)

\* modalInterval: the middle element of the sorted gaps, 30 when there is none
modalInterval(sorted) ==
  LET gaps == SortNums(ModalGaps(sorted))
  IN  IF Len(gaps) > 0 THEN gaps[(Len(gaps) \div 2) + 1] ELSE 30

\* dropThreshold: computed by detectDrops and never read
dropThreshold(sorted, tau) == Max(tau, modalInterval(sorted) * 2)

\* detectDrops with the loop testing dropThreshold in place of tauShort
detectDropsAdaptive(points, tau) ==
  IF Len(points) < 2 THEN <<>>
  ELSE LET sorted == SortByTs(points)
           pairs == [i \in 1..(Len(sorted) - 1) |->
                       [startTs |-> sorted[i].ts,
                        endTs |-> sorted[i + 1].ts,
                        startPos |-> sorted[i].pos,
                        endPos |-> sorted[i + 1].pos,
                        durationSec |-> sorted[i + 1].ts - sorted[i].ts,
                        reason |-> Classify(sorted[i + 1].ts - sorted[i].ts, tau)]]
       IN  SelectSeq(pairs, LAMBDA d : d.durationSec > dropThreshold(sorted, tau))

detectDrops(points, tau) ==
  IF Len(points) < 2 THEN <<>>
  ELSE LET sorted == SortByTs(points)
           pairs == [i \in 1..(Len(sorted) - 1) |->
                       [startTs |-> sorted[i].ts,
                        endTs |-> sorted[i + 1].ts,
                        startPos |-> sorted[i].pos,
                        endPos |-> sorted[i + 1].pos,
                        durationSec |-> sorted[i + 1].ts - sorted[i].ts,
                        reason |-> Classify(sorted[i + 1].ts - sorted[i].ts, tau)]]
       IN  SelectSeq(pairs, LAMBDA d : IsDrop(d.durationSec, tau))

\* h3-js latLngToCell at the configured resolution: a fixed tessellation
latLngToCell(pos) == pos \div CellSizeM

\* turf distance, in metres
distanceM(from, to) == Abs(to - from)

\* turf bearing in degrees within (-180, 180]: due east, due west, or 0
bearing(from, to) ==
  IF to > from THEN 90 ELSE IF to < from THEN 0 - 90 ELSE 0

\* Math.floor(((bearingDeg + 360) % 360) / 22.5) % 16
DirectionBucket(bearingDeg) == ((((bearingDeg + 360) % 360) * 2) \div 45) % 16

\* distanceKm / (durationSec / 3600), in metres per hour
AvgSpeed(distM, durationSec) ==
  IF durationSec > 0 THEN (distM * 3600) \div durationSec ELSE 0

\* the drops extractCorridors skips before resolving the cells
SkippedReason(reason) == reason = "long_gap"

\* the data-quality filters of extractCorridors
Filtered(distM, avgSpeedKmh) ==
  distM < MIN_DISTANCE_M \/ avgSpeedKmh > MAX_SPEED_MH

TraversalOf(drop) ==
  [aH3 |-> latLngToCell(drop.startPos),
   bH3 |-> latLngToCell(drop.endPos),
   direction |-> DirectionBucket(bearing(drop.startPos, drop.endPos)),
   startTs |-> drop.startTs,
   endTs |-> drop.endTs,
   travelSec |-> drop.durationSec,
   avgSpeedKmh |-> AvgSpeed(distanceM(drop.startPos, drop.endPos), drop.durationSec)]

extractCorridors(dropList) ==
  LET kept == SelectSeq(dropList, LAMBDA d :
                ~SkippedReason(d.reason)
                /\ ~Filtered(distanceM(d.startPos, d.endPos),
                             AvgSpeed(distanceM(d.startPos, d.endPos), d.durationSec)))
  IN  [i \in 1..Len(kept) |-> TraversalOf(kept[i])]

----------------------------------------------------------------------------
(* Ingestion coordinator: grouping and trip segmentation (POST /api/ingest) *)

\* the keys of the byVehicle Map, in insertion order
RECURSIVE VehicleOrder(_)
VehicleOrder(points) ==
  IF points = <<>> THEN <<>>
  ELSE LET before == VehicleOrder(SubSeq(points, 1, Len(points) - 1))
           v == points[Len(points)].vehicleId
       IN  IF \E i \in 1..Len(before) : before[i] = v
           THEN before ELSE Append(before, v)

GroupByVehicle(points) ==
  LET order == VehicleOrder(points)
  IN  [i \in 1..Len(order) |->
        [vehicleId |-> order[i],
         points |-> SelectSeq(points, LAMBDA q : q.vehicleId = order[i])]]

\* the split test with the threshold included
SplitsTripInclusive(gapSec) == gapSec >= TRIP_GAP_MINUTES * 60

\* gapMinutes > TRIP_GAP_MINUTES, over whole seconds
SplitsTrip(gapSec) == gapSec > TRIP_GAP_MINUTES * 60

\* the segmentation loop over the sorted points of one vehicle
RECURSIVE SegmentTrips(_)
SegmentTrips(sorted) ==
  IF sorted = <<>> THEN <<>>
  ELSE LET n == Len(sorted)
           before == SegmentTrips(SubSeq(sorted, 1, n - 1))
       IN  IF before = <<>> THEN <<<<sorted[n]>>>>
           ELSE LET cur == before[Len(before)]
                    lastPoint == cur[Len(cur)]
                IN  IF SplitsTrip(sorted[n].ts - lastPoint.ts)
                    THEN Append(before, <<sorted[n]>>)
                    ELSE [before EXCEPT ![Len(before)] = Append(cur, sorted[n])]

----------------------------------------------------------------------------
(* Store operations (the Prisma client)                                    *)

\* findMany without its where clause
StatsOfAny(stats, corridorId) == stats

\* corridorStats.findMany({ where: { corridorId } })
StatsOf(stats, corridorId) ==
  SelectSeq(stats, LAMBDA b : b.corridorId = corridorId)

\* an upsert that always takes its create branch
UpsertCreates(stats, b) == Append(stats, b)

\* corridorStats.upsert on the unique key (corridorId, bucketHour)
Upsert(stats, b) ==
  IF \E i \in 1..Len(stats) :
        stats[i].corridorId = b.corridorId /\ stats[i].bucketHour = b.bucketHour
  THEN [i \in 1..Len(stats) |->
          IF stats[i].corridorId = b.corridorId /\ stats[i].bucketHour = b.bucketHour
          THEN b ELSE stats[i]]
  ELSE Append(stats, b)

\* a findMany that does not see the row created last
TraversalsOfStale(travs, corridorId) ==
  LET found == SelectSeq(travs, LAMBDA t : t.corridorId = corridorId)
  IN  SubSeq(found, 1, Len(found) - 1)

\* traversal.findMany({ where: { corridorId } })
TraversalsOf(travs, corridorId) ==
  SelectSeq(travs, LAMBDA t : t.corridorId = corridorId)

\* the where clause with the resolvedAt filter inverted
AlertMatchesResolvedOnly(a, type, tripId, corridorId) ==
  /\ a.type = type
  /\ a.tripId = tripId
  /\ a.corridorId = corridorId
  /\ a.resolvedAt # "null"

\* the where clause of alert.findFirst in checkAndCreateAlerts
AlertMatches(a, type, tripId, corridorId) ==
  /\ a.type = type
  /\ a.tripId = tripId
  /\ a.corridorId = corridorId
  /\ a.resolvedAt = "null"

\* a lookup that never finds a row
ExistingAlertNone(type, tripId, corridorId) == <<>>

ExistingAlert(type, tripId, corridorId) ==
  FirstAt(alerts, {i \in 1..Len(alerts) :
                     AlertMatches(alerts[i], type, tripId, corridorId)})

\* corridor.findUnique on the unique key (aH3, bH3, direction): id or 0
CorridorIdOf(t) ==
  LET I == {i \in 1..Len(corridors) :
              /\ corridors[i].aH3 = t.aH3
              /\ corridors[i].bH3 = t.bH3
              /\ corridors[i].direction = t.direction}
  IN  IF I = {} THEN 0 ELSE CHOOSE i \in I : TRUE

\* vehicle.findUnique({ where: { name } }): id or 0
VehicleIdOf(name) ==
  LET I == {i \in 1..Len(vehicles) : vehicles[i] = name}
  IN  IF I = {} THEN 0 ELSE CHOOSE i \in I : TRUE

----------------------------------------------------------------------------
(* Requests and calls in flight                                            *)

IdleProc ==
  [pc |-> "idle", kind |-> "none", status |-> 0,
   groups |-> <<>>, vehicle |-> 0, tripQueue |-> <<>>, tripId |-> 0,
   todo |-> <<>>, corridorId |-> 0, upserts |-> <<>>,
   input |-> <<>>, applicable |-> <<>>, chk |-> "none",
   result |-> <<>>, ret |-> "none",
   body |-> <<>>, error |-> "none",
   corridorQueue |-> <<>>, processed |-> 0, errors |-> 0,
   received |-> <<>>, since |-> 0, lastEventId |-> 0, missed |-> <<>>,
   connects |-> 0,
   oneDayAgo |-> 0, travQueue |-> <<>>, checked |-> 0, alertsCreated |-> 0,
   pushed |-> 0]

ProcIds == 1..MaxProcs

\* the one lane of a caller that awaits each request before the next
Serial == {1}

CanStart(p) == proc[p].pc \in {"idle", "done", "failed"}

\* the request ends: response sent
Respond(pr, status) ==
  [pr EXCEPT !.pc = IF status = 200 THEN "done" ELSE "failed",
             !.status = status,
             !.error = IF status = 200 THEN "none"
                       ELSE IF status = 500 THEN "Internal server error"
                       ELSE pr.error]

\* a 400 response with its error text
Reject(pr, error) == Respond([pr EXCEPT !.error = error], 400)

\* the while of the trips of one vehicle, up to the next await
RECURSIVE SkipShortTrips(_)
SkipShortTrips(queue) ==
  IF queue = <<>> THEN <<>>
  ELSE IF Len(queue[1]) < 2 THEN SkipShortTrips(Tail(queue))
  ELSE queue

EnterTrips(pr) ==
  LET q == SkipShortTrips(pr.tripQueue)
  IN  IF q # <<>>
      THEN [pr EXCEPT !.tripQueue = q,
                      !.pc = IF q[1][1].tripId # 0
                             THEN "in_tripFind" ELSE "in_tripCreate"]
      ELSE IF Len(pr.groups) > 1
      THEN [pr EXCEPT !.tripQueue = <<>>, !.groups = Tail(pr.groups),
                      !.pc = "in_vehFind"]
      ELSE Respond([pr EXCEPT !.tripQueue = <<>>, !.groups = <<>>], 200)

\* sort and segment the points of the vehicle found or created
EnterVehicle(pr, vehicleId) ==
  EnterTrips([pr EXCEPT !.vehicle = vehicleId,
                        !.tripQueue = SegmentTrips(SortByTs(pr.groups[1].points))])

\* the for of the traversals of one trip, up to the next await
EnterTraversals(pr) ==
  IF pr.todo # <<>>
  THEN [pr EXCEPT !.pc = "in_corrFind"]
  ELSE EnterTrips([pr EXCEPT !.tripQueue = Tail(pr.tripQueue)])

\* checkAndCreateAlerts returns to its caller
\* the for of the traversals of the batch check, up to the next await; the
\* response after the last
NextTraversal(pr) ==
  IF pr.travQueue # <<>>
  THEN [pr EXCEPT !.pc = "ca_stats",
                  !.input = <<[corridorId |-> pr.travQueue[1].corridorId,
                               tripId |-> pr.travQueue[1].tripId,
                               vehicleId |-> pr.travQueue[1].trip.vehicleId,
                               travelSec |-> pr.travQueue[1].travelSec,
                               avgSpeedKmh |-> pr.travQueue[1].avgSpeedKmh,
                               timestamp |-> pr.travQueue[1].startTs]>>,
                  !.applicable = <<>>, !.result = <<>>]
  ELSE Respond(pr, 200)

\* if (result): an array, empty or not, is truthy; undefined is not
Truthy(ret) == ret = "array"

\* if (result) alertsCreated++; checked++; pushed counts the alerts.push calls
AfterBatchCheck(pr, ret) ==
  NextTraversal([pr EXCEPT !.alertsCreated = IF Truthy(ret) THEN @ + 1 ELSE @,
                           !.checked = @ + 1,
                           !.pushed = IF ret = "array" THEN @ + Len(pr.result) ELSE @,
                           !.travQueue = Tail(@)])

ReturnFromCheck(pr, ret) ==
  LET r == [pr EXCEPT !.ret = ret, !.chk = "none"]
  IN  IF pr.kind = "ingest"
      THEN EnterTraversals([r EXCEPT !.todo = Tail(pr.todo)])
      ELSE IF pr.kind = "batch"
      THEN AfterBatchCheck(r, ret)
      ELSE Respond(r, 200)

\* the overspeed block of checkAndCreateAlerts, up to its findFirst
EnterOverspeed(pr) ==
  IF checkOverspeedAlert(pr.input[1].avgSpeedKmh, pr.applicable[1]).isAlert
  THEN [pr EXCEPT !.pc = "ca_find", !.chk = "overspeed"]
  ELSE ReturnFromCheck(pr, "array")

\* the delay block of checkAndCreateAlerts, up to its findFirst
EnterDelay(pr) ==
  IF checkDelayAlert(pr.input[1].travelSec, pr.applicable[1], delayThresholdMin).isAlert
  THEN [pr EXCEPT !.pc = "ca_find", !.chk = "delay"]
  ELSE EnterOverspeed(pr)

\* the delay block ending the call
AfterBlockReturns(pr) == ReturnFromCheck(pr, "array")

\* after the block of one type: the next block, or return alerts
AfterBlock(pr) ==
  IF pr.chk = "delay" THEN EnterOverspeed(pr) ELSE ReturnFromCheck(pr, "array")

----------------------------------------------------------------------------
(* checkAndCreateAlerts (alert-service)                                    *)

\* a caller (the batch check of POST /api/compute/alerts) makes one call
StartCheck(p, input, bound) ==
  /\ CanStart(p)
  /\ nCalls < bound
  /\ nCalls' = nCalls + 1
  /\ proc' = [proc EXCEPT ![p] =
       [IdleProc EXCEPT !.pc = "ca_stats", !.kind = "check", !.input = <<input>>]]
  /\ UNCHANGED <<config, sim, vehicles, trips, gpsPoints, drops, corridors,
                 traversals, corridorStats, alerts, published>>

\* corridorStats.findMany, getApplicableBaseline, checkDelayAlert
CA_Stats(p) ==
  /\ proc[p].pc = "ca_stats"
  /\ LET pr == proc[p]
         baselines == StatsOf(corridorStats, pr.input[1].corridorId)
         applicable == getApplicableBaseline(baselines, pr.input[1].timestamp)
     IN  proc' = [proc EXCEPT ![p] =
           IF baselines = <<>> THEN ReturnFromCheck(pr, "undefined")
           ELSE IF applicable = <<>> THEN ReturnFromCheck(pr, "undefined")
           ELSE EnterDelay([pr EXCEPT !.applicable = applicable, !.result = <<>>])]
  /\ UNCHANGED <<config, sim, vehicles, trips, gpsPoints, drops, corridors,
                 traversals, corridorStats, alerts, published, nCalls>>

\* alert.findFirst for the type being checked (deduplication)
CA_Find(p) ==
  /\ proc[p].pc = "ca_find"
  /\ LET pr == proc[p]
         existing == ExistingAlert(pr.chk, pr.input[1].tripId, pr.input[1].corridorId)
     IN  proc' = [proc EXCEPT ![p] =
           IF existing = <<>> THEN [pr EXCEPT !.pc = "ca_create"]
           ELSE AfterBlock(pr)]
  /\ UNCHANGED <<config, sim, vehicles, trips, gpsPoints, drops, corridors,
                 traversals, corridorStats, alerts, published, nCalls>>

\* the deviation and the severity threshold (num/den) of the type checked
DeltaOf(pr) ==
  IF pr.chk = "delay"
  THEN checkDelayAlert(pr.input[1].travelSec, pr.applicable[1], delayThresholdMin).delta
  ELSE checkOverspeedAlert(pr.input[1].avgSpeedKmh, pr.applicable[1]).delta

SeverityOf(pr) ==
  IF pr.chk = "delay"
  THEN getAlertSeverity("delay", DeltaOf(pr), delayThresholdMin * 60, 1)
  ELSE getAlertSeverity("overspeed", DeltaOf(pr), pr.applicable[1].p95SpeedKmh, 10)

\* details: the value compared, the baseline value, the bucket of the baseline
DetailsOf(pr) ==
  IF pr.chk = "delay"
  THEN [value |-> pr.input[1].travelSec,
        baseline |-> pr.applicable[1].medianTravelSec,
        bucketHour |-> pr.applicable[1].bucketHour]
  ELSE [value |-> pr.input[1].avgSpeedKmh,
        baseline |-> pr.applicable[1].p95SpeedKmh,
        bucketHour |-> pr.applicable[1].bucketHour]

NewAlert(pr) ==
  [id |-> Len(alerts) + 1,
   type |-> pr.chk,
   corridorId |-> pr.input[1].corridorId,
   tripId |-> pr.input[1].tripId,
   vehicleId |-> pr.input[1].vehicleId,
   severity |-> SeverityOf(pr),
   deltaValue |-> DeltaOf(pr),
   details |-> DetailsOf(pr),
   resolvedAt |-> "null"]

\* an emit that reaches no listener
EmitNothing(pub, alert) == pub

\* alertEmitter.emit(alert): the alert is handed to every listener once
Emit(pub, alert) == Append(pub, alert.id)

\* alert.create, alerts.push, alertEmitter.emit
CA_Create(p) ==
  /\ proc[p].pc = "ca_create"
  /\ LET pr == proc[p]
         alert == NewAlert(pr)
     IN  /\ alerts' = Append(alerts, alert)
         /\ published' = Emit(published, alert)
         /\ proc' = [proc EXCEPT ![p] =
              AfterBlock([pr EXCEPT !.result = Append(pr.result, alert.id)])]
  /\ UNCHANGED <<config, sim, vehicles, trips, gpsPoints, drops, corridors,
                 traversals, corridorStats, nCalls>>

----------------------------------------------------------------------------
(* POST /api/ingest                                                        *)

\* GPS_POINT_SCHEMA without the range of lat
ValidFixAnyLat(q) ==
  /\ q.tsOk
  /\ Abs(q.pos) <= LON_MAX * MetresPerDegree

\* GPS_POINT_SCHEMA: ts is a datetime string, lat and lon are within range
ValidFix(q) ==
  /\ q.tsOk
  /\ Abs(q.lat) <= LAT_MAX
  /\ Abs(q.pos) <= LON_MAX * MetresPerDegree

\* BATCH_SCHEMA.parse succeeds
ValidBatch(body) == \A i \in 1..Len(body) : ValidFix(body[i])

\* parse, validate and group the body; 400 on a ZodError or an empty batch
Arrived(body) ==
  LET pr == [IdleProc EXCEPT !.kind = "ingest", !.body = body]
  IN  IF ~ValidBatch(body) THEN Reject(pr, "Validation error")
      ELSE IF Len(body) = 0 THEN Reject(pr, "No points provided")
      ELSE [pr EXCEPT !.pc = "in_vehFind", !.groups = GroupByVehicle(body)]

\* the request arrives
StartIngest(p, body, bound) ==
  /\ CanStart(p)
  /\ nCalls < bound
  /\ nCalls' = nCalls + 1
  /\ proc' = [proc EXCEPT ![p] = Arrived(body)]
  /\ UNCHANGED <<config, sim, vehicles, trips, gpsPoints, drops, corridors,
                 traversals, corridorStats, alerts, published>>

\* vehicle.findUnique, then sort and segment
In_VehFind(p) ==
  /\ proc[p].pc = "in_vehFind"
  /\ LET pr == proc[p]
         id == VehicleIdOf(pr.groups[1].vehicleId)
     IN  proc' = [proc EXCEPT ![p] =
           IF id = 0 THEN [pr EXCEPT !.pc = "in_vehCreate"]
           ELSE EnterVehicle(pr, id)]
  /\ UNCHANGED <<config, sim, vehicles, trips, gpsPoints, drops, corridors,
                 traversals, corridorStats, alerts, published, nCalls>>

\* vehicle.create: the unique name rejects a second row (caught: 500)
In_VehCreate(p) ==
  /\ proc[p].pc = "in_vehCreate"
  /\ LET pr == proc[p]
         name == pr.groups[1].vehicleId
     IN  IF VehicleIdOf(name) # 0
         THEN /\ proc' = [proc EXCEPT ![p] = Respond(pr, 500)]
              /\ UNCHANGED vehicles
         ELSE /\ vehicles' = Append(vehicles, name)
              /\ proc' = [proc EXCEPT ![p] = EnterVehicle(pr, Len(vehicles) + 1)]
  /\ UNCHANGED <<config, sim, trips, gpsPoints, drops, corridors,
                 traversals, corridorStats, alerts, published, nCalls>>

\* trip.findUnique by the tripId of the first point of the segment
In_TripFind(p) ==
  /\ proc[p].pc = "in_tripFind"
  /\ LET pr == proc[p]
         id == pr.tripQueue[1][1].tripId
     IN  proc' = [proc EXCEPT ![p] =
           IF id \in 1..Len(trips)
           THEN [pr EXCEPT !.pc = "in_tripUpdate", !.tripId = id]
           ELSE [pr EXCEPT !.pc = "in_tripCreate"]]
  /\ UNCHANGED <<config, sim, vehicles, trips, gpsPoints, drops, corridors,
                 traversals, corridorStats, alerts, published, nCalls>>

TripStart(tripPoints) == tripPoints[1].ts

TripEnd(tripPoints) == tripPoints[Len(tripPoints)].ts

\* trip.create
In_TripCreate(p) ==
  /\ proc[p].pc = "in_tripCreate"
  /\ LET pr == proc[p]
         tripPoints == pr.tripQueue[1]
     IN  /\ trips' = Append(trips, [vehicleId |-> pr.vehicle,
                                    startTime |-> TripStart(tripPoints),
                                    endTime |-> TripEnd(tripPoints),
                                    source |-> "api_ingest"])
         /\ proc' = [proc EXCEPT ![p] =
              [pr EXCEPT !.pc = "in_points", !.tripId = Len(trips) + 1]]
  /\ UNCHANGED <<config, sim, vehicles, gpsPoints, drops, corridors,
                 traversals, corridorStats, alerts, published, nCalls>>

\* trip.update({ data: { endTime } })
In_TripUpdate(p) ==
  /\ proc[p].pc = "in_tripUpdate"
  /\ LET pr == proc[p]
     IN  /\ trips' = [trips EXCEPT ![pr.tripId].endTime = TripEnd(pr.tripQueue[1])]
         /\ proc' = [proc EXCEPT ![p] = [pr EXCEPT !.pc = "in_points"]]
  /\ UNCHANGED <<config, sim, vehicles, gpsPoints, drops, corridors,
                 traversals, corridorStats, alerts, published, nCalls>>

\* gPSPoint.createMany, then detectDrops
In_Points(p) ==
  /\ proc[p].pc = "in_points"
  /\ LET pr == proc[p]
         tripPoints == pr.tripQueue[1]
         rows == [i \in 1..Len(tripPoints) |->
                   [tripId |-> pr.tripId, ts |-> tripPoints[i].ts,
                    pos |-> tripPoints[i].pos]]
     IN  /\ gpsPoints' = gpsPoints \o rows
         /\ proc' = [proc EXCEPT ![p] =
              IF Len(detectDrops(tripPoints, tauShort)) > 0
              THEN [pr EXCEPT !.pc = "in_drops"]
              ELSE EnterTraversals([pr EXCEPT !.todo = extractCorridors(<<>>)])]
  /\ UNCHANGED <<config, sim, vehicles, trips, drops, corridors,
                 traversals, corridorStats, alerts, published, nCalls>>

\* gPSPoint.createMany rejects (the store fails the write): caught, 500
In_PointsFail(p) ==
  /\ proc[p].pc = "in_points"
  /\ proc' = [proc EXCEPT ![p] = Respond(proc[p], 500)]
  /\ UNCHANGED <<config, sim, vehicles, trips, gpsPoints, drops, corridors,
                 traversals, corridorStats, alerts, published, nCalls>>

\* drop.createMany, then extractCorridors
In_Drops(p) ==
  /\ proc[p].pc = "in_drops"
  /\ LET pr == proc[p]
         found == detectDrops(pr.tripQueue[1], tauShort)
         rows == [i \in 1..Len(found) |->
                   [tripId |-> pr.tripId, startTs |-> found[i].startTs,
                    endTs |-> found[i].endTs,
                    durationSec |-> found[i].durationSec,
                    reason |-> found[i].reason]]
     IN  /\ drops' = drops \o rows
         /\ proc' = [proc EXCEPT ![p] =
              EnterTraversals([pr EXCEPT !.todo = extractCorridors(found)])]
  /\ UNCHANGED <<config, sim, vehicles, trips, gpsPoints, corridors,
                 traversals, corridorStats, alerts, published, nCalls>>

\* corridor.findUnique on (aH3, bH3, direction)
In_CorrFind(p) ==
  /\ proc[p].pc = "in_corrFind"
  /\ LET pr == proc[p]
         id == CorridorIdOf(pr.todo[1])
     IN  proc' = [proc EXCEPT ![p] =
           IF id = 0 THEN [pr EXCEPT !.pc = "in_corrCreate"]
           ELSE [pr EXCEPT !.pc = "in_travCreate", !.corridorId = id]]
  /\ UNCHANGED <<config, sim, vehicles, trips, gpsPoints, drops, corridors,
                 traversals, corridorStats, alerts, published, nCalls>>

\* corridor.create: the unique key rejects a second row (caught: 500)
In_CorrCreate(p) ==
  /\ proc[p].pc = "in_corrCreate"
  /\ LET pr == proc[p]
         t == pr.todo[1]
     IN  IF CorridorIdOf(t) # 0
         THEN /\ proc' = [proc EXCEPT ![p] = Respond(pr, 500)]
              /\ UNCHANGED corridors
         ELSE /\ corridors' = Append(corridors,
                   [aH3 |-> t.aH3, bH3 |-> t.bH3, direction |-> t.direction])
              /\ proc' = [proc EXCEPT ![p] =
                   [pr EXCEPT !.pc = "in_travCreate",
                              !.corridorId = Len(corridors) + 1]]
  /\ UNCHANGED <<config, sim, vehicles, trips, gpsPoints, drops,
                 traversals, corridorStats, alerts, published, nCalls>>

\* the loop going from traversal.create straight to checkAndCreateAlerts
AfterTraversalStoredCheckFirst(pr) ==
  [pr EXCEPT !.pc = "ca_stats",
             !.input = <<[corridorId |-> pr.corridorId, tripId |-> pr.tripId,
                          vehicleId |-> pr.vehicle,
                          travelSec |-> pr.todo[1].travelSec,
                          avgSpeedKmh |-> pr.todo[1].avgSpeedKmh,
                          timestamp |-> pr.todo[1].startTs]>>,
             !.applicable = <<>>, !.result = <<>>, !.upserts = <<>>]

\* after traversal.create resolves: await updateCorridorBaselines(corridor.id)
AfterTraversalStored(pr) == [pr EXCEPT !.pc = "ub_findMany"]

\* traversal.create
In_TravCreate(p) ==
  /\ proc[p].pc = "in_travCreate"
  /\ LET pr == proc[p]
         t == pr.todo[1]
     IN  /\ traversals' = Append(traversals,
              [corridorId |-> pr.corridorId, tripId |-> pr.tripId,
               startTs |-> t.startTs, endTs |-> t.endTs,
               travelSec |-> t.travelSec, avgSpeedKmh |-> t.avgSpeedKmh])
         /\ proc' = [proc EXCEPT ![p] = AfterTraversalStored(pr)]
  /\ UNCHANGED <<config, sim, vehicles, trips, gpsPoints, drops, corridors,
                 corridorStats, alerts, published, nCalls>>

\* the arguments of the checkAndCreateAlerts call of the ingestion loop
AlertInputOf(pr) ==
  [corridorId |-> pr.corridorId, tripId |-> pr.tripId, vehicleId |-> pr.vehicle,
   travelSec |-> pr.todo[1].travelSec, avgSpeedKmh |-> pr.todo[1].avgSpeedKmh,
   timestamp |-> pr.todo[1].startTs]

EnterCheck(pr) ==
  [pr EXCEPT !.pc = "ca_stats", !.input = <<AlertInputOf(pr)>>,
             !.applicable = <<>>, !.result = <<>>, !.upserts = <<>>]

\* updateCorridorBaselines: traversal.findMany and computeBaselines
UB_FindMany(p) ==
  /\ proc[p].pc = "ub_findMany"
  /\ LET pr == proc[p]
         found == TraversalsOf(traversals, pr.corridorId)
         baselines == computeBaselines(pr.corridorId, found, MIN_SAMPLES_FOR_HOURLY)
     IN  proc' = [proc EXCEPT ![p] =
           IF Len(found) = 0 \/ baselines = <<>> THEN EnterCheck(pr)
           ELSE [pr EXCEPT !.pc = "ub_upsert", !.upserts = baselines]]
  /\ UNCHANGED <<config, sim, vehicles, trips, gpsPoints, drops, corridors,
                 traversals, corridorStats, alerts, published, nCalls>>

\* updateCorridorBaselines: one corridorStats.upsert of the loop
UB_Upsert(p) ==
  /\ proc[p].pc = "ub_upsert"
  /\ LET pr == proc[p]
     IN  /\ corridorStats' = Upsert(corridorStats, pr.upserts[1])
         /\ proc' = [proc EXCEPT ![p] =
              IF Len(pr.upserts) > 1
              THEN [pr EXCEPT !.upserts = Tail(pr.upserts)]
              ELSE EnterCheck(pr)]
  /\ UNCHANGED <<config, sim, vehicles, trips, gpsPoints, drops, corridors,
                 traversals, alerts, published, nCalls>>

----------------------------------------------------------------------------
(* POST /api/compute/baselines                                             *)

\* the request starts: corridor.findMany is awaited
StartRecompute(p, bound) ==
  /\ CanStart(p)
  /\ nCalls < bound
  /\ nCalls' = nCalls + 1
  /\ proc' = [proc EXCEPT ![p] =
       [IdleProc EXCEPT !.pc = "rb_corridors", !.kind = "recompute"]]
  /\ UNCHANGED <<config, sim, vehicles, trips, gpsPoints, drops, corridors,
                 traversals, corridorStats, alerts, published>>

\* the for of the corridors, up to the next await; the response after the last
NextCorridor(pr) ==
  IF pr.corridorQueue # <<>>
  THEN [pr EXCEPT !.pc = "rb_findMany", !.corridorId = pr.corridorQueue[1],
                  !.upserts = <<>>]
  ELSE Respond([pr EXCEPT !.upserts = <<>>], 200)

\* corridor.findMany({ select: { id } })
RB_Corridors(p) ==
  /\ proc[p].pc = "rb_corridors"
  /\ proc' = [proc EXCEPT ![p] =
       NextCorridor([proc[p] EXCEPT
                       !.corridorQueue = [i \in 1..Len(corridors) |-> i]])]
  /\ UNCHANGED <<config, sim, vehicles, trips, gpsPoints, drops, corridors,
                 traversals, corridorStats, alerts, published, nCalls>>

\* traversal.findMany of one corridor, continue when empty, computeBaselines
RB_FindMany(p) ==
  /\ proc[p].pc = "rb_findMany"
  /\ LET pr == proc[p]
         found == TraversalsOf(traversals, pr.corridorId)
         baselines == computeBaselines(pr.corridorId, found, MIN_SAMPLES_FOR_HOURLY)
         rest == [pr EXCEPT !.corridorQueue = Tail(pr.corridorQueue)]
     IN  proc' = [proc EXCEPT ![p] =
           IF Len(found) = 0 THEN NextCorridor(rest)
           ELSE IF baselines = <<>>
           THEN NextCorridor([rest EXCEPT !.processed = pr.processed + 1])
           ELSE [pr EXCEPT !.pc = "rb_upsert", !.upserts = baselines]]
  /\ UNCHANGED <<config, sim, vehicles, trips, gpsPoints, drops, corridors,
                 traversals, corridorStats, alerts, published, nCalls>>

\* one corridorStats.upsert of the loop; a row for a corridor that is gone
\* violates the foreign key: the inner catch counts the error and goes on
RB_Upsert(p) ==
  /\ proc[p].pc = "rb_upsert"
  /\ LET pr == proc[p]
         rest == [pr EXCEPT !.corridorQueue = Tail(pr.corridorQueue)]
     IN  IF pr.corridorId \notin 1..Len(corridors)
         THEN /\ UNCHANGED corridorStats
              /\ proc' = [proc EXCEPT ![p] =
                   NextCorridor([rest EXCEPT !.errors = pr.errors + 1])]
         ELSE /\ corridorStats' = Upsert(corridorStats, pr.upserts[1])
              /\ proc' = [proc EXCEPT ![p] =
                   IF Len(pr.upserts) > 1
                   THEN [pr EXCEPT !.upserts = Tail(pr.upserts)]
                   ELSE NextCorridor([rest EXCEPT !.processed = pr.processed + 1])]
  /\ UNCHANGED <<config, sim, vehicles, trips, gpsPoints, drops, corridors,
                 traversals, alerts, published, nCalls>>

----------------------------------------------------------------------------
(* POST /api/compute/alerts (batch alert check)                            *)

\* orderBy startTs desc: the latest row first, rows of one instant in table order
RECURSIVE ByStartDesc(_)
ByStartDesc(rows) ==
  IF rows = <<>> THEN <<>>
  ELSE LET k == CHOOSE i \in 1..Len(rows) :
                  /\ \A j \in 1..Len(rows) : rows[j].startTs <= rows[i].startTs
                  /\ \A j \in 1..(i - 1) : rows[j].startTs < rows[i].startTs
       IN  <<rows[k]>> \o ByStartDesc(SubSeq(rows, 1, k - 1) \o SubSeq(rows, k + 1, Len(rows)))

\* the request arrives; oneDayAgo is Date.now() less 24 hours
StartBatch(p, oneDayAgo, bound) ==
  /\ CanStart(p)
  /\ nCalls < bound
  /\ nCalls' = nCalls + 1
  /\ proc' = [proc EXCEPT ![p] =
       [IdleProc EXCEPT !.pc = "ba_findMany", !.kind = "batch",
                        !.oneDayAgo = oneDayAgo]]
  /\ UNCHANGED <<config, sim, vehicles, trips, gpsPoints, drops, corridors,
                 traversals, corridorStats, alerts, published>>

\* traversal.findMany({ where: startTs >= oneDayAgo, include: trip })
BA_FindMany(p) ==
  /\ proc[p].pc = "ba_findMany"
  /\ LET pr == proc[p]
         recent == SelectSeq(traversals, LAMBDA t : t.startTs >= pr.oneDayAgo)
         found == [i \in 1..Len(recent) |->
                    [corridorId |-> recent[i].corridorId,
                     tripId |-> recent[i].tripId,
                     trip |-> trips[recent[i].tripId],
                     travelSec |-> recent[i].travelSec,
                     avgSpeedKmh |-> recent[i].avgSpeedKmh,
                     startTs |-> recent[i].startTs]]
     IN  proc' = [proc EXCEPT ![p] =
           NextTraversal([pr EXCEPT !.travQueue = ByStartDesc(found),
                                    !.checked = 0, !.alertsCreated = 0,
                                    !.errors = 0, !.pushed = 0])]
  /\ UNCHANGED <<config, sim, vehicles, trips, gpsPoints, drops, corridors,
                 traversals, corridorStats, alerts, published, nCalls>>

----------------------------------------------------------------------------
(* POST /api/db/reset: one deleteMany per await, in the order of the code  *)

StartReset(p, bound) ==
  /\ CanStart(p)
  /\ nCalls < bound
  /\ nCalls' = nCalls + 1
  /\ proc' = [proc EXCEPT ![p] =
       [IdleProc EXCEPT !.pc = "rs_alerts", !.kind = "reset"]]
  /\ UNCHANGED <<config, sim, vehicles, trips, gpsPoints, drops, corridors,
                 traversals, corridorStats, alerts, published>>

\* the deleteMany resolved: the next one is awaited
ResetGoes(pr, pc) == [pr EXCEPT !.pc = pc]

\* a deleteMany rejected by a foreign key: caught, 500 with the error message
ResetFails(pr) == [pr EXCEPT !.pc = "failed", !.status = 500,
                             !.error = "Foreign key constraint failed"]

RS_Alerts(p) ==
  /\ proc[p].pc = "rs_alerts"
  /\ alerts' = <<>>
  /\ proc' = [proc EXCEPT ![p] = ResetGoes(proc[p], "rs_stats")]
  /\ UNCHANGED <<config, sim, vehicles, trips, gpsPoints, drops, corridors,
                 traversals, corridorStats, published, nCalls>>

RS_Stats(p) ==
  /\ proc[p].pc = "rs_stats"
  /\ corridorStats' = <<>>
  /\ proc' = [proc EXCEPT ![p] = ResetGoes(proc[p], "rs_traversals")]
  /\ UNCHANGED <<config, sim, vehicles, trips, gpsPoints, drops, corridors,
                 traversals, alerts, published, nCalls>>

RS_Traversals(p) ==
  /\ proc[p].pc = "rs_traversals"
  /\ traversals' = <<>>
  /\ proc' = [proc EXCEPT ![p] = ResetGoes(proc[p], "rs_corridors")]
  /\ UNCHANGED <<config, sim, vehicles, trips, gpsPoints, drops, corridors,
                 corridorStats, alerts, published, nCalls>>

\* corridor.deleteMany: rows written since the earlier deletes still refer
\* to a corridor
RS_Corridors(p) ==
  /\ proc[p].pc = "rs_corridors"
  /\ IF corridorStats # <<>> \/ traversals # <<>> \/ alerts # <<>>
     THEN /\ UNCHANGED corridors
          /\ proc' = [proc EXCEPT ![p] = ResetFails(proc[p])]
     ELSE /\ corridors' = <<>>
          /\ proc' = [proc EXCEPT ![p] = ResetGoes(proc[p], "rs_drops")]
  /\ UNCHANGED <<config, sim, vehicles, trips, gpsPoints, drops,
                 traversals, corridorStats, alerts, published, nCalls>>

RS_Drops(p) ==
  /\ proc[p].pc = "rs_drops"
  /\ drops' = <<>>
  /\ proc' = [proc EXCEPT ![p] = ResetGoes(proc[p], "rs_points")]
  /\ UNCHANGED <<config, sim, vehicles, trips, gpsPoints, corridors,
                 traversals, corridorStats, alerts, published, nCalls>>

RS_Points(p) ==
  /\ proc[p].pc = "rs_points"
  /\ gpsPoints' = <<>>
  /\ proc' = [proc EXCEPT ![p] = ResetGoes(proc[p], "rs_trips")]
  /\ UNCHANGED <<config, sim, vehicles, trips, drops, corridors,
                 traversals, corridorStats, alerts, published, nCalls>>

RS_Trips(p) ==
  /\ proc[p].pc = "rs_trips"
  /\ IF gpsPoints # <<>> \/ drops # <<>> \/ traversals # <<>> \/ alerts # <<>>
     THEN /\ UNCHANGED trips
          /\ proc' = [proc EXCEPT ![p] = ResetFails(proc[p])]
     ELSE /\ trips' = <<>>
          /\ proc' = [proc EXCEPT ![p] = ResetGoes(proc[p], "rs_vehicles")]
  /\ UNCHANGED <<config, sim, vehicles, gpsPoints, drops, corridors,
                 traversals, corridorStats, alerts, published, nCalls>>

\* vehicle.deleteMany, then the response
RS_Vehicles(p) ==
  /\ proc[p].pc = "rs_vehicles"
  /\ IF trips # <<>> \/ alerts # <<>>
     THEN /\ UNCHANGED vehicles
          /\ proc' = [proc EXCEPT ![p] = ResetFails(proc[p])]
     ELSE /\ vehicles' = <<>>
          /\ proc' = [proc EXCEPT ![p] = Respond(proc[p], 200)]
  /\ UNCHANGED <<config, sim, trips, gpsPoints, drops, corridors,
                 traversals, corridorStats, alerts, published, nCalls>>

----------------------------------------------------------------------------
(* GET /api/alerts/stream and the client of the alerts panel               *)
(* An alert's createdAt is modelled by its id: later alerts have later     *)
(* times, and the event id of a message names the alert it carries.        *)

\* the alert ids enqueued on the connection of pr so far: what was enqueued
\* before and at the subscription, then every emit since the subscription
Stream(pr) ==
  IF pr.pc = "live"
  THEN pr.received \o SubSeq(published, pr.since + 1, Len(published))
  ELSE pr.received

\* alertEmitter.subscribe(callback): the listener hears the emits from now on
Subscribed(pr) == [pr EXCEPT !.pc = "live", !.since = Len(published)]

\* connectSSE: new EventSource(url), with lastEventId when one was stored;
\* the server enqueues 'connected', then awaits the missed-alerts query or,
\* without lastEventId, subscribes at once
SSE_Connect(p) ==
  /\ proc[p].pc \in {"idle", "closed"}
  /\ proc[p].connects < MaxConnects
  /\ LET pr == [proc[p] EXCEPT !.kind = "sse", !.connects = proc[p].connects + 1,
                              !.received = <<>>, !.missed = <<>>]
     IN  proc' = [proc EXCEPT ![p] =
           IF pr.lastEventId # 0 THEN [pr EXCEPT !.pc = "sse_query"]
           ELSE Subscribed(pr)]
  /\ UNCHANGED <<config, sim, vehicles, trips, gpsPoints, drops, corridors,
                 traversals, corridorStats, alerts, published, nCalls>>

\* alert.findMany: unresolved alerts created after lastEventId, oldest first
MissedAlerts(lastEventId) ==
  LET found == SelectSeq(alerts, LAMBDA a :
                 a.id > lastEventId /\ a.resolvedAt = "null")
  IN  [i \in 1..Len(found) |-> found[i].id]

\* the store answers the missed-alerts query
SSE_Query(p) ==
  /\ proc[p].pc = "sse_query"
  /\ proc' = [proc EXCEPT ![p] =
       [proc[p] EXCEPT !.pc = "sse_subscribe",
                       !.missed = MissedAlerts(proc[p].lastEventId)]]
  /\ UNCHANGED <<config, sim, vehicles, trips, gpsPoints, drops, corridors,
                 traversals, corridorStats, alerts, published, nCalls>>

\* the await resumes: the missed alerts are enqueued, then subscribe
SSE_Subscribe(p) ==
  /\ proc[p].pc = "sse_subscribe"
  /\ proc' = [proc EXCEPT ![p] =
       Subscribed([proc[p] EXCEPT !.received = proc[p].missed, !.missed = <<>>])]
  /\ UNCHANGED <<config, sim, vehicles, trips, gpsPoints, drops, corridors,
                 traversals, corridorStats, alerts, published, nCalls>>

\* the id the client stored from the last message that carried one
LastEventIdOf(pr) ==
  LET got == Stream(pr)
  IN  IF got # <<>> THEN got[Len(got)] ELSE pr.lastEventId

\* onerror: the client closes the EventSource; the abort unsubscribes
SSE_Drop(p) ==
  /\ proc[p].pc = "live"
  /\ proc' = [proc EXCEPT ![p] =
       [proc[p] EXCEPT !.pc = "closed",
                       !.received = Stream(proc[p]),
                       !.lastEventId = LastEventIdOf(proc[p])]]
  /\ UNCHANGED <<config, sim, vehicles, trips, gpsPoints, drops, corridors,
                 traversals, corridorStats, alerts, published, nCalls>>

----------------------------------------------------------------------------
(* Inputs                                                                  *)

T10 == 10 * 3600     \* 10:00:00 UTC of day 0
T11 == 11 * 3600     \* 11:00:00 UTC of day 0

\* a fix on the equator: lat 0, lon = pos / MetresPerDegree; tsOk: ts parses
Point(v, trip, ts, pos) ==
  [vehicleId |-> v, tripId |-> trip, ts |-> ts, pos |-> pos, lat |-> 0, tsOk |-> TRUE]

\* a batch of two fixes of one vehicle; tripId 0 stands for an absent tripId
Body2(ts, gap, a, b, trip) ==
  <<Point("V1", trip, ts, a), Point("V1", trip, ts + gap, b)>>

\* no drop, micro, transit, transit at the ceiling, extended (tau 60)
GapValues == {30, 72, 300, 600, 720}

\* jitter, same cell, next cell eastwards, next cell westwards
PosPairs == {<<0, 5>>, <<0, 800>>, <<0, 3000>>, <<3000, 0>>}

BodiesFlow ==
  {Body2(T10, g, pp[1], pp[2], 0) : g \in GapValues, pp \in PosPairs}
  \cup {Body2(T10, 300, 0, 3000, 1), Body2(T10, 72, 0, 6000, 0)}
  \cup {<<Point("V1", 0, T10, 0), Point("V1", 0, T10 + 1500, 0),
          Point("V1", 0, T10 + 1800, 3000)>>,
        <<Point("V2", 0, T10 + 300, 3000), Point("V1", 0, T10, 0),
          Point("V2", 0, T10, 0), Point("V1", 0, T10 + 600, 3000)>>}

\* a transit pair followed by one fix the schema rejects
InvalidBodies ==
  {Body2(T10, 300, 0, 3000, 0) \o <<bad>> :
     bad \in {[Point("V1", 0, T10 + 600, 6000) EXCEPT !.lat = LAT_MAX + 1],
              [Point("V1", 0, T10 + 600, 0) EXCEPT
                 !.pos = LON_MAX * MetresPerDegree + 1],
              [Point("V1", 0, 0, 6000) EXCEPT !.tsOk = FALSE]}}

\* the body of Simulator.ingestPoint: a single fix
SingleFixBodies == {<<Point("V1", 0, T10, 0)>>}

BodiesConc ==
  {Body2(T10, 300, 0, 3000, 0), Body2(T10, 600, 0, 3000, 0),
   Body2(T10, 600, 0, 3000, 1)}

BodiesBase ==
  {Body2(T10, 300, 0, 3000, 0), Body2(T10, 600, 0, 3000, 0),
   Body2(T11, 300, 0, 3000, 0)}

\* <<TAU_SHORT, DELAY_THRESHOLD_MINUTES>> of the environment
ConfigsFlow == {<<TAU_SHORT_DEFAULT, DELAY_THRESHOLD_DEFAULT>>,
                <<TAU_SHORT_DEFAULT, 1>>,
                <<650, DELAY_THRESHOLD_DEFAULT>>}

ConfigsConc == {<<TAU_SHORT_DEFAULT, 1>>}

ConfigsAlert == {<<TAU_SHORT_DEFAULT, DELAY_THRESHOLD_DEFAULT>>,
                 <<TAU_SHORT_DEFAULT, 10>>}

CheckInputs ==
  [corridorId : {1}, tripId : {1, 2}, vehicleId : {1},
   travelSec : {300, 900, 1199, 1200, 1400, 1650, 2100},
   avgSpeedKmh : {36000, 39600, 43200},
   timestamp : {T10}]

\* calls for a corridor that has no CorridorStats row
NoStatsInputs ==
  [corridorId : {2}, tripId : {1}, vehicleId : {1},
   travelSec : {1400}, avgSpeedKmh : {36000, 43200}, timestamp : {T10}]

\* two vehicles, each with one transit pair; one vehicle; a second hour
BodiesFail ==
  {<<Point("V1", 0, T10, 0), Point("V1", 0, T10 + 300, 3000),
     Point("V2", 0, T10, 0), Point("V2", 0, T10 + 600, 3000)>>,
   Body2(T10, 300, 0, 3000, 0),
   Body2(T10, 600, 0, 3000, 1)}

\* the sample of POST /api/test/flow: 20 fixes 180 s and 0.001 degrees apart
FlowTestStepSec == 180
FlowTestStepM == MetresPerDegree \div 1000
FlowTestFixes == 20

FlowTestBody ==
  [i \in 1..FlowTestFixes |->
     Point("V1", 0, T10 + (i - 1) * FlowTestStepSec, (i - 1) * FlowTestStepM)]

\* four fixes out of order: gaps of 1200 s, 1201 s and 299 s once sorted
ScrambledBody ==
  <<Point("V1", 0, T10 + 1200, 3000), Point("V1", 0, T10 + 2700, 6000),
    Point("V1", 0, T10, 0), Point("V1", 0, T10 + 2401, 3000)>>

\* five fixes in order: gaps of 90 s three times, then 200 s
MixedGapsBody ==
  <<Point("V1", 0, T10, 0), Point("V1", 0, T10 + 90, 500),
    Point("V1", 0, T10 + 180, 1000), Point("V1", 0, T10 + 270, 1500),
    Point("V1", 0, T10 + 470, 2500)>>

\* a trip; fixes 5 minutes after its end; the same trip id delivered twice, the
\* longer batch first or second; a gap of exactly tau
BodiesTrip ==
  {Body2(T10, 300, 0, 3000, 0), Body2(T10 + 600, 300, 3000, 6000, 0),
   Body2(T10, 600, 0, 3000, 1), Body2(T10, 300, 0, 3000, 1),
   Body2(T10, TAU_SHORT_DEFAULT, 0, 3000, 0),
   ScrambledBody, FlowTestBody, MixedGapsBody}

\* checks of two trips, each late and fast enough for both alert types
StreamInputs ==
  [corridorId : {1}, tripId : {1, 2}, vehicleId : {1},
   travelSec : {1400}, avgSpeedKmh : {43200}, timestamp : {T10}]

RaceInputs ==
  [corridorId : {1}, tripId : {1}, vehicleId : {1},
   travelSec : {300, 1400},
   avgSpeedKmh : {36000, 43200},
   timestamp : {T10}]

----------------------------------------------------------------------------
(* The CSV simulator (lib/simulator): the simulator object, start, stop,   *)
(* forceReset, and the replay loop of runSimulation in normal mode. The    *)
(* start route passes files, speed and tripGapMinutes only, so skipDelays  *)
(* is undefined. The replay loop started by the k-th successful start()    *)
(* is loop k; its AbortController is controller k, and the request it      *)
(* awaits runs on lane k. A null is 0 (numbers) or <<>> (config).          *)

\* a parsed row: a fix and whether gpsLocated or engineOn marks it as tracked
SimPoint(v, ts, pos, tracked) ==
  [vehicleId |-> v, tripId |-> 0, ts |-> ts, pos |-> pos, lat |-> 0,
   tsOk |-> TRUE, tracked |-> tracked]

\* the rows of the CSV files of public/dataset, by file
Dataset(file) ==
  IF file = 1
  THEN <<SimPoint("V1", T10 + 30, 5, TRUE), SimPoint("V1", T10, 0, TRUE)>>
  ELSE <<SimPoint("V2", T10, 0, FALSE), SimPoint("V2", T10, 5, TRUE)>>

\* start configurations: files and speed
SimConfigs == {[files |-> <<1>>, speed |-> 1], [files |-> <<2, 1>>, speed |-> 10]}

\* the body of the fetch of ingestPoint, as GPS_POINT_SCHEMA keeps it
Fix(point) == Point(point.vehicleId, point.tripId, point.ts, point.pos)

ResetStatus ==
  [isRunning |-> FALSE, currentFile |-> 0, processedPoints |-> 0,
   totalPoints |-> 0, currentTimestamp |-> 0]

LoopOff == [pc |-> "off", files |-> <<>>, points |-> <<>>, lastTimestamp |-> 0]

\* the simulator after construction; calls, lastCall and thrown record the
\* control calls made and what the last start() threw
SimIdle ==
  [config |-> <<>>, currentSpeed |-> 1, status |-> ResetStatus,
   abortController |-> 0, aborted |-> {},
   loops |-> [k \in ProcIds |-> LoopOff], started |-> 0,
   calls |-> 0, lastCall |-> "none", thrown |-> "none"]

\* this.abortController?.signal.aborted
Aborted(s) == s.abortController # 0 /\ s.abortController \in s.aborted

\* the lines after the for of the files
Complete(s, k) ==
  [s EXCEPT !.status.isRunning = FALSE, !.status.currentFile = 0,
            !.loops[k] = [LoopOff EXCEPT !.pc = "ended"]]

\* the top of one iteration of the for of the files, up to await fs.readFile
EnterFile(s, k) ==
  IF s.loops[k].files = <<>> THEN Complete(s, k)
  ELSE IF Aborted(s) THEN Complete(s, k)
  ELSE [s EXCEPT !.status.currentFile = s.loops[k].files[1],
                 !.loops[k].pc = "read", !.loops[k].points = <<>>,
                 !.loops[k].lastTimestamp = 0]

\* the end of one iteration of the for of the files (also after a break of
\* the for of the points, and after the catch)
NextFile(s, k) == EnterFile([s EXCEPT !.loops[k].files = Tail(@)], k)

\* if (simulatedGapMs > 0 && simulatedGapMs < 300000), gap in seconds
Sleeps(gapSec, speed) == gapSec > 0 /\ gapSec * 1000 < MAX_SLEEP_MS * speed

\* the for of the points from the top of an iteration up to the next await:
\* the abort check, the delay, the fetch of a tracked point, the counters
RECURSIVE EnterPoint(_, _)
RECURSIVE AfterSleep(_, _)
RECURSIVE Processed(_, _)
EnterPoint(s, k) ==
  IF s.loops[k].points = <<>> THEN NextFile(s, k)
  ELSE IF Aborted(s) THEN NextFile(s, k)
  ELSE IF /\ s.loops[k].lastTimestamp # 0
          /\ Sleeps(s.loops[k].points[1].ts - s.loops[k].lastTimestamp, s.currentSpeed)
  THEN [s EXCEPT !.loops[k].pc = "sleep"]
  ELSE AfterSleep(s, k)

\* after the delay: await this.ingestPoint(point) when the point is tracked
AfterSleep(s, k) ==
  IF s.loops[k].points[1].tracked
  THEN [s EXCEPT !.loops[k].pc = "fetch"]
  ELSE Processed(s, k)

\* processedPoints++, currentTimestamp, lastTimestamp, then the next point
Processed(s, k) ==
  EnterPoint([s EXCEPT !.status.processedPoints = @ + 1,
                       !.status.currentTimestamp = s.loops[k].points[1].ts,
                       !.loops[k].lastTimestamp = s.loops[k].points[1].ts,
                       !.loops[k].points = Tail(@)], k)

\* start(config) without the isRunning guard
startUnguarded(s, cfg) ==
  LET k == s.started + 1
  IN  EnterFile([s EXCEPT !.config = <<cfg>>,
                          !.currentSpeed = cfg.speed,
                          !.status.isRunning = TRUE,
                          !.status.processedPoints = 0,
                          !.status.totalPoints = 0,
                          !.abortController = k,
                          !.started = k,
                          !.thrown = "none",
                          !.loops[k] = [LoopOff EXCEPT !.pc = "run",
                                                       !.files = cfg.files]], k)

\* start(config): throws while running; otherwise sets the configuration, the
\* counters and a new AbortController, and runs runSimulation up to its
\* first await
start(s, cfg) ==
  IF s.status.isRunning
  THEN [s EXCEPT !.thrown = "Simulator is already running"]
  ELSE LET k == s.started + 1
       IN  EnterFile([s EXCEPT !.config = <<cfg>>,
                               !.currentSpeed = cfg.speed,
                               !.status.isRunning = TRUE,
                               !.status.processedPoints = 0,
                               !.status.totalPoints = 0,
                               !.abortController = k,
                               !.started = k,
                               !.thrown = "none",
                               !.loops[k] = [LoopOff EXCEPT !.pc = "run",
                                                            !.files = cfg.files]], k)

\* this.abortController.abort() when there is a controller
Abort(s) ==
  [s EXCEPT !.aborted = IF s.abortController # 0 THEN @ \cup {s.abortController}
                        ELSE @]

stop(s) == [Abort(s) EXCEPT !.status.isRunning = FALSE]

forceReset(s) ==
  [Abort(s) EXCEPT !.status = ResetStatus, !.config = <<>>, !.abortController = 0]

\* a control call is made: the call is counted and named
Called(s, name) == [s EXCEPT !.calls = @ + 1, !.lastCall = name]

\* POST /api/simulator/start
Sim_Start(cfg) ==
  /\ sim.calls < MaxSimCalls
  /\ sim.status.isRunning \/ sim.started < MaxProcs
  /\ sim' = Called(start(sim, cfg), "start")
  /\ UNCHANGED <<config, vehicles, trips, gpsPoints, drops, corridors,
                 traversals, corridorStats, alerts, published, proc, nCalls>>

\* POST /api/simulator/stop and POST /api/simulator/status?action=stop
Sim_Stop ==
  /\ sim.calls < MaxSimCalls
  /\ sim' = Called(stop(sim), "stop")
  /\ UNCHANGED <<config, vehicles, trips, gpsPoints, drops, corridors,
                 traversals, corridorStats, alerts, published, proc, nCalls>>

\* POST /api/simulator/force-stop
Sim_ForceReset ==
  /\ sim.calls < MaxSimCalls
  /\ sim' = Called(forceReset(sim), "forceReset")
  /\ UNCHANGED <<config, vehicles, trips, gpsPoints, drops, corridors,
                 traversals, corridorStats, alerts, published, proc, nCalls>>

\* the loop of k continues to its next await; when that await is the fetch of
\* ingestPoint, the request arrives at POST /api/ingest
Continues(k, s) ==
  /\ sim' = s
  /\ IF s.loops[k].pc = "fetch"
     THEN /\ proc' = [proc EXCEPT ![k] = Arrived(<<Fix(s.loops[k].points[1])>>)]
          /\ nCalls' = nCalls + 1
     ELSE UNCHANGED <<proc, nCalls>>
  /\ UNCHANGED <<config, vehicles, trips, gpsPoints, drops, corridors,
                 traversals, corridorStats, alerts, published>>

\* fs.readFile returns: parse, totalPoints, map, sort, this.config.skipDelays
\* (a TypeError when this.config is null, caught by the catch of the file)
Loop_Read(k) ==
  /\ sim.loops[k].pc = "read"
  /\ LET records == Dataset(sim.loops[k].files[1])
         s == [sim EXCEPT !.status.totalPoints = @ + Len(records)]
     IN  Continues(k, IF s.config = <<>> THEN NextFile(s, k)
                      ELSE EnterPoint([s EXCEPT !.loops[k].points = SortByTs(records)], k))

\* the timer of this.sleep fires
Loop_Wake(k) ==
  /\ sim.loops[k].pc = "sleep"
  /\ Continues(k, AfterSleep(sim, k))

\* the fetch of ingestPoint returns, with any status
Loop_Response(k) ==
  /\ sim.loops[k].pc = "fetch"
  /\ proc[k].kind = "ingest"
  /\ proc[k].pc \in {"done", "failed"}
  /\ Continues(k, Processed(sim, k))

----------------------------------------------------------------------------
(* Initial states                                                          *)

InitEmpty(configs) ==
  /\ \E c \in configs : tauShort = c[1] /\ delayThresholdMin = c[2]
  /\ vehicles = <<>>
  /\ trips = <<>>
  /\ gpsPoints = <<>>
  /\ drops = <<>>
  /\ corridors = <<>>
  /\ traversals = <<>>
  /\ corridorStats = <<>>
  /\ alerts = <<>>
  /\ published = <<>>
  /\ proc = [p \in ProcIds |-> IdleProc]
  /\ nCalls = 0
  /\ sim = SimIdle

\* the store after two requests Body2(T10, 300, 0, 3000, 0), one after the other
SeedTrip == [vehicleId |-> 1, startTime |-> T10, endTime |-> T10 + 300,
             source |-> "api_ingest"]

SeedPoints(trip) == <<[tripId |-> trip, ts |-> T10, pos |-> 0],
                      [tripId |-> trip, ts |-> T10 + 300, pos |-> 3000]>>

SeedDrop(trip) == [tripId |-> trip, startTs |-> T10, endTs |-> T10 + 300,
                   durationSec |-> 300, reason |-> "weak_signal"]

SeedTraversal(trip) == [corridorId |-> 1, tripId |-> trip, startTs |-> T10,
                        endTs |-> T10 + 300, travelSec |-> 300,
                        avgSpeedKmh |-> 36000]

SeedStats == <<[corridorId |-> 1, bucketHour |-> GLOBAL_BUCKET, count |-> 2,
                medianTravelSec |-> 300, p95SpeedKmh |-> 36000]>>

SeedStore ==
  /\ vehicles = <<"V1">>
  /\ trips = <<SeedTrip, SeedTrip>>
  /\ gpsPoints = SeedPoints(1) \o SeedPoints(2)
  /\ drops = <<SeedDrop(1), SeedDrop(2)>>
  /\ corridors = <<[aH3 |-> 0, bH3 |-> 1, direction |-> 4]>>
  /\ traversals = <<SeedTraversal(1), SeedTraversal(2)>>
  /\ corridorStats = SeedStats
  /\ alerts = <<>>
  /\ published = <<>>

InitSeeded(configs) ==
  /\ \E c \in configs : tauShort = c[1] /\ delayThresholdMin = c[2]
  /\ SeedStore
  /\ proc = [p \in ProcIds |-> IdleProc]
  /\ nCalls = 0
  /\ sim = SimIdle

----------------------------------------------------------------------------
(* Specifications                                                          *)

IngestStep(p) ==
  \/ In_VehFind(p) \/ In_VehCreate(p)
  \/ In_TripCreate(p)
  \/ In_Points(p) \/ In_Drops(p)
  \/ In_CorrFind(p) \/ In_CorrCreate(p) \/ In_TravCreate(p)
  \/ UB_FindMany(p) \/ UB_Upsert(p)

TripIdStep(p) == In_TripFind(p) \/ In_TripUpdate(p)

CheckStep(p) == CA_Stats(p) \/ CA_Find(p) \/ CA_Create(p)

\* ingestion requests, one at a time, from an empty store
InitFlow == InitEmpty(ConfigsFlow)

NextFlow ==
  \E p \in Serial :
    \/ \E body \in BodiesFlow \cup InvalidBodies \cup SingleFixBodies :
         StartIngest(p, body, MaxFlowCalls)
    \/ IngestStep(p) \/ TripIdStep(p) \/ CheckStep(p)

SpecFlow == InitFlow /\ [][NextFlow]_vars

\* concurrent ingestion requests for one corridor, from an empty store
InitConc == InitEmpty(ConfigsConc)

NextConc ==
  \E p \in ProcIds :
    \/ \E body \in BodiesConc : StartIngest(p, body, MaxConcCalls)
    \/ IngestStep(p) \/ TripIdStep(p) \/ CheckStep(p)

SpecConc == InitConc /\ [][NextConc]_vars

\* requests, one at a time, that accumulate traversals of one corridor
InitBase == InitEmpty(ConfigsConc)

NextBase ==
  \E p \in Serial :
    \/ \E body \in BodiesBase : StartIngest(p, body, MaxBaseCalls)
    \/ IngestStep(p) \/ CheckStep(p)

SpecBase == InitBase /\ [][NextBase]_vars

\* checkAndCreateAlerts calls, one at a time, on a store with one corridor
InitAlert == InitSeeded(ConfigsAlert)

NextAlert ==
  \E p \in Serial :
    \/ \E input \in CheckInputs \cup NoStatsInputs :
         StartCheck(p, input, MaxAlertCalls)
    \/ CheckStep(p)

SpecAlert == InitAlert /\ [][NextAlert]_vars

\* checkAndCreateAlerts calls interleaved at their awaits
InitRace == InitSeeded({<<TAU_SHORT_DEFAULT, DELAY_THRESHOLD_DEFAULT>>})

NextRace ==
  \E p \in ProcIds :
    \/ \E input \in RaceInputs : StartCheck(p, input, MaxRaceCalls)
    \/ CheckStep(p)

SpecRace == InitRace /\ [][NextRace]_vars

\* ingestion requests, one at a time, against a store that may fail a write
InitFail == InitEmpty(ConfigsConc)

NextFail ==
  \E p \in Serial :
    \/ \E body \in BodiesFail : StartIngest(p, body, MaxFailCalls)
    \/ IngestStep(p) \/ TripIdStep(p) \/ CheckStep(p)
    \/ In_PointsFail(p)

SpecFail == InitFail /\ [][NextFail]_vars

\* ingestion requests, one at a time, that create and update trips
InitTrip == InitEmpty(ConfigsConc)

NextTrip ==
  \E p \in Serial :
    \/ \E body \in BodiesTrip : StartIngest(p, body, MaxTripCalls)
    \/ IngestStep(p) \/ TripIdStep(p) \/ CheckStep(p)

SpecTrip == InitTrip /\ [][NextTrip]_vars

RecomputeStep(p) == RB_Corridors(p) \/ RB_FindMany(p) \/ RB_Upsert(p)

ResetStep(p) ==
  \/ RS_Alerts(p) \/ RS_Stats(p) \/ RS_Traversals(p) \/ RS_Corridors(p)
  \/ RS_Drops(p) \/ RS_Points(p) \/ RS_Trips(p) \/ RS_Vehicles(p)

\* ingestion requests and batch recomputes, one at a time, from an empty store
InitRecompute == InitEmpty(ConfigsConc)

NextRecompute ==
  \E p \in Serial :
    \/ \E body \in BodiesBase : StartIngest(p, body, MaxRecomputeCalls)
    \/ IngestStep(p) \/ CheckStep(p)
    \/ StartRecompute(p, MaxRecomputeCalls) \/ RecomputeStep(p)

SpecRecompute == InitRecompute /\ [][NextRecompute]_vars

\* the lane of the operator who resets the database
Admin == ProcIds \ Serial

\* batch recomputes, one at a time, while a database reset runs beside them
InitReset == InitSeeded({<<TAU_SHORT_DEFAULT, DELAY_THRESHOLD_DEFAULT>>})

NextReset ==
  \/ \E p \in Serial : StartRecompute(p, MaxResetCalls) \/ RecomputeStep(p)
  \/ \E p \in Admin : StartReset(p, MaxResetCalls) \/ ResetStep(p)

SpecReset == InitReset /\ [][NextReset]_vars

\* the lane of the browser that listens to the alert stream
Listeners == ProcIds \ Serial

StreamStep(p) ==
  SSE_Connect(p) \/ SSE_Query(p) \/ SSE_Subscribe(p) \/ SSE_Drop(p)

\* checkAndCreateAlerts calls, one at a time, beside a client of the stream
InitStream == InitSeeded({<<TAU_SHORT_DEFAULT, DELAY_THRESHOLD_DEFAULT>>})

NextStream ==
  \/ \E p \in Serial :
       \/ \E input \in StreamInputs : StartCheck(p, input, MaxStreamCalls)
       \/ CheckStep(p)
  \/ \E p \in Listeners : StreamStep(p)

SpecStream == InitStream /\ [][NextStream]_vars

\* the store after n requests Body2(T10, 300, 0, 3000, 0), one after the other
SeededStats(n) ==
  <<[corridorId |-> 1, bucketHour |-> GLOBAL_BUCKET, count |-> n,
     medianTravelSec |-> 300, p95SpeedKmh |-> 36000]>>
  \o (IF n >= MIN_SAMPLES_FOR_HOURLY
      THEN <<[corridorId |-> 1, bucketHour |-> getHourBucket(T10), count |-> n,
              medianTravelSec |-> 300, p95SpeedKmh |-> 36000]>>
      ELSE <<>>)

SeededStore(n) ==
  /\ vehicles = <<"V1">>
  /\ trips = [i \in 1..n |-> SeedTrip]
  /\ gpsPoints = [k \in 1..(2 * n) |-> SeedPoints((k + 1) \div 2)[((k - 1) % 2) + 1]]
  /\ drops = [i \in 1..n |-> SeedDrop(i)]
  /\ corridors = <<[aH3 |-> 0, bH3 |-> 1, direction |-> 4]>>
  /\ traversals = [i \in 1..n |-> SeedTraversal(i)]
  /\ corridorStats = SeededStats(n)
  /\ alerts = <<>>
  /\ published = <<>>

\* a slower, an equal and a faster crossing in hour 10, a faster one in hour 11,
\* and a second vehicle crossing the other way
BodiesSpeed ==
  {Body2(T10, 600, 0, 3000, 0), Body2(T10, 300, 0, 3000, 0),
   Body2(T10, 200, 0, 3000, 0), Body2(T11, 200, 0, 3000, 0),
   <<Point("V2", 0, T10, 3000), Point("V2", 0, T10 + 200, 0)>>}

\* ingest requests, one at a time, on a corridor that already has traversals
InitSpeed ==
  /\ \E c \in ConfigsFlow : tauShort = c[1] /\ delayThresholdMin = c[2]
  /\ \E n \in {MIN_SAMPLES_FOR_HOURLY - 1, MaxSeeded} : SeededStore(n)
  /\ proc = [p \in ProcIds |-> IdleProc]
  /\ nCalls = 0
  /\ sim = SimIdle

NextSpeed ==
  \E p \in Serial :
    \/ \E body \in BodiesSpeed : StartIngest(p, body, MaxSpeedCalls)
    \/ IngestStep(p) \/ CheckStep(p)

SpecSpeed == InitSpeed /\ [][NextSpeed]_vars

\* the batch check after ingestion requests, one request at a time
WindowStarts == {0, T11}

InitBatch == InitEmpty(ConfigsConc)

NextBatch ==
  \E p \in Serial :
    \/ \E body \in BodiesBase : StartIngest(p, body, MaxBatchCalls)
    \/ \E oneDayAgo \in WindowStarts : StartBatch(p, oneDayAgo, MaxBatchCalls)
    \/ IngestStep(p) \/ CheckStep(p)
    \/ BA_FindMany(p)

SpecBatch == InitBatch /\ [][NextBatch]_vars

\* the simulator driven by start, stop and force-stop calls; a request of one
\* fix ends after the vehicle lookup, its trip of one point being skipped
InitSim == InitEmpty({<<TAU_SHORT_DEFAULT, DELAY_THRESHOLD_DEFAULT>>})

NextSim ==
  \/ \E cfg \in SimConfigs : Sim_Start(cfg)
  \/ Sim_Stop
  \/ Sim_ForceReset
  \/ \E k \in ProcIds :
       \/ Loop_Read(k) \/ Loop_Wake(k) \/ Loop_Response(k)
       \/ In_VehFind(k) \/ In_VehCreate(k)

SpecSim == InitSim /\ [][NextSim]_vars

\* the two ingest requests the simulator keeps in flight together, for one
\* corridor, from an empty store
Pair == 1..PARALLEL_BATCHES

BodiesPair == {Body2(T10, 300, 0, 3000, 0), Body2(T10, 600, 0, 3000, 0)}

InitPair == InitEmpty(ConfigsConc)

NextPair ==
  \E p \in Pair :
    \/ \E body \in BodiesPair : StartIngest(p, body, MaxPairCalls)
    \/ IngestStep(p) \/ CheckStep(p)

SpecPair == InitPair /\ [][NextPair]_vars

Spec == SpecFlow

----------------------------------------------------------------------------
(* Vocabulary of the properties                                            *)

\* no request or call is in flight
Quiet == \A p \in ProcIds : proc[p].pc \in {"idle", "done", "failed"}

\* a checkAndCreateAlerts call of a caller has returned with a baseline resolved
Returned(p) ==
  /\ proc[p].kind = "check"
  /\ proc[p].pc = "done"
  /\ proc[p].applicable # <<>>

UnresolvedFor(type, tripId, corridorId) ==
  {i \in 1..Len(alerts) :
     /\ alerts[i].type = type
     /\ alerts[i].tripId = tripId
     /\ alerts[i].corridorId = corridorId
     /\ alerts[i].resolvedAt = "null"}

SameTriple(a, b) ==
  a.type = b.type /\ a.tripId = b.tripId /\ a.corridorId = b.corridorId

\* the alerts of one type created by the last call of p
CreatedBy(p, type) ==
  {i \in 1..Len(alerts) :
     /\ alerts[i].type = type
     /\ \E k \in 1..Len(proc[p].result) : proc[p].result[k] = i}

\* the unresolved alerts of the triple of p's call that p's call did not create
PriorFor(p, type) ==
  UnresolvedFor(type, proc[p].input[1].tripId, proc[p].input[1].corridorId)
    \ CreatedBy(p, type)

DelayDelta(p) == proc[p].input[1].travelSec - proc[p].applicable[1].medianTravelSec

DelayQualifies(p) == DelayDelta(p) >= delayThresholdMin * 60

----------------------------------------------------------------------------
(* Properties                                                              *)

\* C1: with the checkAndCreateAlerts calls made one at a time, every reachable
\* store holds at most one unresolved alert per (tripId, corridorId, type), and
\* once a call with a qualifying delay has returned there is exactly one
\* unresolved delay alert for its trip and corridor.
C1_OneUnresolvedPerTriple ==
  /\ \A i, j \in 1..Len(alerts) :
       (SameTriple(alerts[i], alerts[j])
        /\ alerts[i].resolvedAt = "null" /\ alerts[j].resolvedAt = "null")
       => i = j
  /\ \A p \in Serial :
       (Returned(p) /\ DelayQualifies(p))
       => Cardinality(UnresolvedFor("delay", proc[p].input[1].tripId,
                                    proc[p].input[1].corridorId)) = 1

\* C1 witness: a second qualifying delay call for the same trip and corridor
\* has returned without creating an alert, and one delay alert exists.
C1_SecondQualifyingCallSuppressed ==
  \E p \in Serial :
    /\ Returned(p) /\ DelayQualifies(p)
    /\ CreatedBy(p, "delay") = {}
    /\ Cardinality(PriorFor(p, "delay")) = 1

\* C2: once all interleaved checkAndCreateAlerts calls have finished, at most
\* one unresolved alert exists per (tripId, corridorId, type).
C2_NoDuplicateAfterInterleaving ==
  Quiet =>
    \A i, j \in 1..Len(alerts) :
      (i # j /\ SameTriple(alerts[i], alerts[j]))
      => (alerts[i].resolvedAt # "null" \/ alerts[j].resolvedAt # "null")

TraversalCount(corridorId) ==
  Cardinality({i \in 1..Len(traversals) : traversals[i].corridorId = corridorId})

TraversalCountInHour(corridorId, h) ==
  Cardinality({i \in 1..Len(traversals) :
                 /\ traversals[i].corridorId = corridorId
                 /\ getHourBucket(traversals[i].startTs) = h})

StatsRows(corridorId, bucketHour) ==
  {i \in 1..Len(corridorStats) :
     /\ corridorStats[i].corridorId = corridorId
     /\ corridorStats[i].bucketHour = bucketHour}

\* the stored sample counts are those of the stored traversals
CountsMatchTraversals ==
  \A c \in 1..Len(corridors) :
    /\ TraversalCount(c) > 0 =>
         \E i \in StatsRows(c, GLOBAL_BUCKET) :
           corridorStats[i].count = TraversalCount(c)
    /\ \A h \in 0..23 : \A i \in StatsRows(c, h) :
         corridorStats[i].count = TraversalCountInHour(c, h)

\* C3: once all concurrent ingestion requests have finished, the stored
\* baseline sample counts are those a sequential ingestion leaves: the global
\* count is the number of stored traversals of the corridor and each hourly
\* count the number of its traversals in that hour.
C3_ConcurrentCountsAsSequential == Quiet => CountsMatchTraversals

\* C4: every stored traversal comes from a transit (weak_signal) gap: its
\* travelSec lies in (tau_short * 1.2, 600] and no drop of its trip over the
\* same interval is a micro_drop or a long_gap.
C4_OnlyTransitGapsStored ==
  \A i \in 1..Len(traversals) :
    /\ 5 * traversals[i].travelSec > 6 * tauShort
    /\ traversals[i].travelSec <= LONG_GAP_SEC
    /\ \A k \in 1..Len(drops) :
         (/\ drops[k].tripId = traversals[i].tripId
          /\ drops[k].startTs = traversals[i].startTs
          /\ drops[k].endTs = traversals[i].endTs)
         => drops[k].reason = "weak_signal"

\* C5: no stored corridor is a self-loop (aH3 equal to bH3).
C5_NoSelfLoopCorridor ==
  \A c \in 1..Len(corridors) : corridors[c].aH3 # corridors[c].bH3

\* the case of C6: median 300, travelSec 1400, threshold 15 minutes, and no
\* unresolved delay alert for the trip and corridor before the call
C6_Case(p) ==
  /\ Returned(p)
  /\ delayThresholdMin = DELAY_THRESHOLD_DEFAULT
  /\ proc[p].applicable[1].medianTravelSec = 300
  /\ proc[p].input[1].travelSec = 1400
  /\ PriorFor(p, "delay") = {}

\* C6 as stated: in that case the call creates exactly one delay alert, with
\* deltaValue 1100 and severity high.
C6_DelayAlertHigh ==
  \A p \in Serial :
    C6_Case(p) =>
      /\ Cardinality(CreatedBy(p, "delay")) = 1
      /\ \A i \in CreatedBy(p, "delay") :
           alerts[i].deltaValue = 1100 /\ alerts[i].severity = "high"

\* C6 amended: in that case the call creates exactly one delay alert, with
\* deltaValue 1100 and severity low (1100 / 900 is below 1.5).
C6_DelayAlertLow ==
  \A p \in Serial :
    C6_Case(p) =>
      /\ Cardinality(CreatedBy(p, "delay")) = 1
      /\ \A i \in CreatedBy(p, "delay") :
           alerts[i].deltaValue = 1100 /\ alerts[i].severity = "low"

\* C6 witness: such a call has returned and its delay alert is stored.
C6_CaseReached ==
  \E p \in Serial : C6_Case(p) /\ CreatedBy(p, "delay") # {}

\* C7 as stated: a stored drop of gap g is micro_drop when g <= tau_short*1.2,
\* weak_signal when tau_short*1.2 < g <= 600, long_gap when g > 600.
C7_ClassificationAsStated ==
  \A k \in 1..Len(drops) :
    LET g == drops[k].durationSec
    IN  /\ g > tauShort
        /\ (5 * g <= 6 * tauShort) => drops[k].reason = "micro_drop"
        /\ (5 * g > 6 * tauShort /\ g <= 600) => drops[k].reason = "weak_signal"
        /\ (g > 600) => drops[k].reason = "long_gap"

\* C7 amended: a stored drop of gap g is long_gap when g > 600; otherwise
\* micro_drop when g <= tau_short*1.2 and weak_signal when g > tau_short*1.2.
C7_ClassificationCeilingFirst ==
  \A k \in 1..Len(drops) :
    LET g == drops[k].durationSec
    IN  /\ g > tauShort
        /\ (g > 600) => drops[k].reason = "long_gap"
        /\ (g <= 600 /\ 5 * g <= 6 * tauShort) => drops[k].reason = "micro_drop"
        /\ (g <= 600 /\ 5 * g > 6 * tauShort) => drops[k].reason = "weak_signal"

\* C7 witness: a gap above 600 s that is within tau_short*1.2 has been stored.
C7_CeilingWithinMicroBand ==
  \E k \in 1..Len(drops) :
    drops[k].durationSec > 600 /\ 5 * drops[k].durationSec <= 6 * tauShort

\* the lookup of p's last alert check is still comparable with the store
Looked(p) == proc[p].applicable # <<>> /\ proc[p].pc # "ub_upsert"

LookupHour(p) == getHourBucket(proc[p].input[1].timestamp)

\* the stored rows of a corridor without its global row
HourlyRows(corridorId) ==
  SelectSeq(StatsOf(corridorStats, corridorId),
            LAMBDA b : b.bucketHour # GLOBAL_BUCKET)

\* C8: the baseline resolved for a traversal is the stored hourly row of the
\* traversal's UTC hour when there is one, otherwise the global row; with
\* exactly 5 traversals in hour 10 and fewer than 5 in every other hour it is
\* the hour-10 row at hour 10 and the global row at hour 11; from rows with
\* neither the hour's row nor a global row nothing is resolved.
C8_ApplicableBaseline ==
  \A p \in Serial :
    Looked(p) =>
      LET c == proc[p].input[1].corridorId
          b == proc[p].applicable[1]
      IN  /\ StatsRows(c, LookupHour(p)) # {} =>
               \E i \in StatsRows(c, LookupHour(p)) : corridorStats[i] = b
          /\ StatsRows(c, LookupHour(p)) = {} =>
               \E i \in StatsRows(c, GLOBAL_BUCKET) : corridorStats[i] = b
          /\ (/\ TraversalCountInHour(c, 10) = 5
              /\ \A h \in (0..23) \ {10} : TraversalCountInHour(c, h) < 5)
             => /\ LookupHour(p) = 10 => b.bucketHour = 10
                /\ LookupHour(p) = 11 => b.bucketHour = GLOBAL_BUCKET
          /\ \A h \in {10, 11} :
               StatsRows(c, h) = {} =>
                 getApplicableBaseline(HourlyRows(c), h * 3600) = <<>>

\* C8 witness: with exactly 5 traversals in hour 10 and one in hour 11, the
\* lookup at hour 11 resolved the global row although an hour-10 row exists.
C8_GlobalFallbackAtHour11 ==
  \E p \in Serial :
    /\ Looked(p)
    /\ LookupHour(p) = 11
    /\ TraversalCountInHour(proc[p].input[1].corridorId, 10) = 5
    /\ TraversalCountInHour(proc[p].input[1].corridorId, 11) = 1
    /\ StatsRows(proc[p].input[1].corridorId, 10) # {}
    /\ proc[p].applicable[1].bucketHour = GLOBAL_BUCKET

\* C9: once a request has finished, a corridor has an hourly row for hour h
\* exactly if at least 5 of its traversals start in hour h, and exactly one
\* global row, whose count is the number of its traversals, once it has a
\* traversal; a resolved hourly baseline has a count of at least 5.
C9_HourlyIffMinSamples ==
  /\ Quiet =>
       \A c \in 1..Len(corridors) :
         /\ \A h \in 0..23 :
              (StatsRows(c, h) # {})
                <=> (TraversalCountInHour(c, h) >= MIN_SAMPLES_FOR_HOURLY)
         /\ TraversalCount(c) > 0 =>
              /\ Cardinality(StatsRows(c, GLOBAL_BUCKET)) = 1
              /\ \A i \in StatsRows(c, GLOBAL_BUCKET) :
                   corridorStats[i].count = TraversalCount(c)
  /\ \A p \in Serial :
       (Looked(p) /\ proc[p].applicable[1].bucketHour # GLOBAL_BUCKET)
       => proc[p].applicable[1].count >= MIN_SAMPLES_FOR_HOURLY

\* C9 witness: a corridor has an hourly row of exactly 5 samples while another
\* hour that has a traversal has no row.
C9_FiveSamplesHourlyRow ==
  /\ Quiet
  /\ \E c \in 1..Len(corridors) :
       /\ \E i \in StatsRows(c, 10) : corridorStats[i].count = 5
       /\ TraversalCountInHour(c, 11) = 1
       /\ StatsRows(c, 11) = {}

\* C10: a returned call has flagged a delay exactly if travelSec minus the
\* baseline median is at least delayThresholdMinutes * 60: then an unresolved
\* delay alert exists for its trip and corridor (created by the call when
\* there was none), and below the threshold the call created none.
C10_DelayIffAtLeastThreshold ==
  \A p \in Serial :
    Returned(p) =>
      /\ DelayDelta(p) >= delayThresholdMin * 60 =>
           /\ UnresolvedFor("delay", proc[p].input[1].tripId,
                            proc[p].input[1].corridorId) # {}
           /\ PriorFor(p, "delay") = {} => Cardinality(CreatedBy(p, "delay")) = 1
      /\ DelayDelta(p) < delayThresholdMin * 60 => CreatedBy(p, "delay") = {}

\* C10 witness: a call exactly at the threshold (delta 900 s against 15
\* minutes) has created a delay alert.
C10_BoundaryFlagged ==
  \E p \in Serial :
    /\ Returned(p)
    /\ delayThresholdMin = DELAY_THRESHOLD_DEFAULT
    /\ DelayDelta(p) = 900
    /\ CreatedBy(p, "delay") # {}

OverspeedDelta(p) ==
  proc[p].input[1].avgSpeedKmh - proc[p].applicable[1].p95SpeedKmh

OverspeedQualifies(p) ==
  OverspeedDelta(p) > 0 /\ proc[p].applicable[1].p95SpeedKmh > 0

\* C11: a returned call has flagged an overspeed exactly if avgSpeedKmh minus
\* the baseline p95 is above 0 and the p95 is above 0: then an unresolved
\* overspeed alert exists for its trip and corridor (created by the call when
\* there was none), otherwise the call created none; against a baseline whose
\* p95 is 0 no speed is flagged.
C11_OverspeedIffAbovePositiveP95 ==
  /\ \A p \in Serial :
       Returned(p) =>
         /\ OverspeedQualifies(p) =>
              /\ UnresolvedFor("overspeed", proc[p].input[1].tripId,
                               proc[p].input[1].corridorId) # {}
              /\ PriorFor(p, "overspeed") = {}
                   => Cardinality(CreatedBy(p, "overspeed")) = 1
         /\ ~OverspeedQualifies(p) => CreatedBy(p, "overspeed") = {}
  /\ \A i \in 1..Len(corridorStats) : \A v \in {0, 36000} :
       ~checkOverspeedAlert(v, [corridorStats[i] EXCEPT !.p95SpeedKmh = 0]).isAlert

\* C11 witness: a call exactly at the p95 speed has returned without an
\* overspeed alert for its trip, while a faster traversal of another trip has
\* one.
C11_AtP95NotFlagged ==
  \E p \in Serial :
    /\ Returned(p)
    /\ OverspeedDelta(p) = 0
    /\ UnresolvedFor("overspeed", proc[p].input[1].tripId,
                     proc[p].input[1].corridorId) = {}
    /\ \E i \in 1..Len(alerts) :
         alerts[i].type = "overspeed" /\ alerts[i].deltaValue > 0

\* the band of |delta| / (num / den): 2 and above, 1.5 up to 2, below 1.5
SeverityBand(delta, num, den) ==
  LET a == Abs(delta) * den
  IN  IF a >= 2 * num THEN "high"
      ELSE IF 2 * a >= 3 * num THEN "medium"
      ELSE "low"

\* C12: every stored alert has the severity of the band of |deltaValue| over
\* its threshold: high from 2, medium from 1.5 up to 2, low below; the
\* threshold of a delay alert is delayThresholdMinutes * 60 seconds and that of
\* an overspeed alert is a tenth of the baseline p95 speed.
C12_SeverityBands ==
  \A i \in 1..Len(alerts) :
    /\ alerts[i].type = "delay" =>
         alerts[i].severity =
           SeverityBand(alerts[i].deltaValue, delayThresholdMin * 60, 1)
    /\ alerts[i].type = "overspeed" =>
         alerts[i].severity =
           SeverityBand(alerts[i].deltaValue, alerts[i].details.baseline, 10)

\* C12 witness: the store holds a delay alert exactly at ratio 1.5 (medium),
\* a delay alert at ratio 2 (high) and an overspeed alert below 1.5 (low).
C12_AllBandsStored ==
  /\ \E i \in 1..Len(alerts) :
       /\ alerts[i].type = "delay" /\ alerts[i].severity = "medium"
       /\ 2 * alerts[i].deltaValue = 3 * delayThresholdMin * 60
  /\ \E i \in 1..Len(alerts) :
       /\ alerts[i].type = "delay" /\ alerts[i].severity = "high"
       /\ alerts[i].deltaValue = 2 * delayThresholdMin * 60
  /\ \E i \in 1..Len(alerts) :
       alerts[i].type = "overspeed" /\ alerts[i].severity = "low"

\* C13: a returned call has created at most one alert of each type, hence
\* zero, one or two alerts, and each type on its own terms: a delay alert
\* exactly if the delay qualifies and the trip and corridor had no unresolved
\* delay alert, an overspeed alert exactly if the overspeed qualifies and they
\* had no unresolved overspeed alert, whatever happened to the other type.
C13_ChecksIndependent ==
  \A p \in Serial :
    Returned(p) =>
      /\ Cardinality(CreatedBy(p, "delay")) <= 1
      /\ Cardinality(CreatedBy(p, "overspeed")) <= 1
      /\ Len(proc[p].result) =
           Cardinality(CreatedBy(p, "delay")) + Cardinality(CreatedBy(p, "overspeed"))
      /\ CreatedBy(p, "delay") # {}
           <=> (DelayQualifies(p) /\ PriorFor(p, "delay") = {})
      /\ CreatedBy(p, "overspeed") # {}
           <=> (OverspeedQualifies(p) /\ PriorFor(p, "overspeed") = {})

\* C13 witness: a call whose delay was suppressed by an earlier alert has
\* created its overspeed alert.
C13_OverspeedAfterSuppressedDelay ==
  \E p \in Serial :
    /\ Returned(p)
    /\ DelayQualifies(p) /\ PriorFor(p, "delay") # {}
    /\ CreatedBy(p, "delay") = {}
    /\ Cardinality(CreatedBy(p, "overspeed")) = 1

\* a qualifying check of p is at its lookup and an unresolved alert exists
Suppressing(p) ==
  /\ proc[p].pc = "ca_find"
  /\ UnresolvedFor(proc[p].chk, proc[p].input[1].tripId,
                   proc[p].input[1].corridorId) # {}

NoBaselineFor(p) ==
  /\ proc[p].pc = "ca_stats"
  /\ StatsRows(proc[p].input[1].corridorId, LookupHour(p)) = {}
  /\ StatsRows(proc[p].input[1].corridorId, GLOBAL_BUCKET) = {}

\* C15: a call for a corridor without an applicable baseline returns at its
\* lookup: it creates no alert, publishes nothing and leaves every table as it
\* was.
C15_NoBaselineNoAlert ==
  [][\A p \in Serial :
       NoBaselineFor(p) =>
         /\ alerts' = alerts
         /\ published' = published
         /\ corridorStats' = corridorStats
         /\ traversals' = traversals
         /\ proc'[p].pc = "done"
         /\ proc'[p].ret = "undefined"
         /\ proc'[p].result = <<>>]_vars

\* C15 witness: a call with a delay far above the threshold, for a corridor
\* without rows, has returned undefined, while alerts of another corridor are
\* stored.
C15_ReturnedWithoutBaseline ==
  \E p \in Serial :
    /\ proc[p].kind = "check" /\ proc[p].pc = "done"
    /\ proc[p].ret = "undefined"
    /\ proc[p].input[1].travelSec = 1400
    /\ StatsOf(corridorStats, proc[p].input[1].corridorId) = <<>>
    /\ proc[p].result = <<>>
    /\ Len(alerts) > 0
    /\ \A i \in 1..Len(alerts) :
         alerts[i].corridorId # proc[p].input[1].corridorId

\* the tables of the store
store == <<vehicles, trips, gpsPoints, drops, corridors, traversals,
           corridorStats, alerts>>

\* a fix the ingestion contract rejects: unparsable timestamp, lat outside
\* [-90, 90] or lon outside [-180, 180]
InvalidFix(q) ==
  \/ ~q.tsOk
  \/ q.lat < 0 - 90 \/ q.lat > 90
  \/ q.pos < 0 - (180 * MetresPerDegree) \/ q.pos > 180 * MetresPerDegree

HasInvalidFix(body) == \E i \in 1..Len(body) : InvalidFix(body[i])

\* C16: every step of a request whose batch holds an invalid fix is the
\* rejection of the whole batch with status 400 and "Validation error", and
\* it leaves every table and the published alerts as they were.
C16_InvalidBatchRejectedWhole ==
  [][\A p \in Serial :
       (/\ proc'[p] # proc[p]
        /\ proc'[p].kind = "ingest"
        /\ HasInvalidFix(proc'[p].body))
       => /\ proc'[p].pc = "failed"
          /\ proc'[p].status = 400
          /\ proc'[p].error = "Validation error"
          /\ store' = store
          /\ published' = published]_vars

\* C16 witness: a batch of two valid fixes and one fix with lat 91 has been
\* rejected after an earlier request stored its two fixes; nothing was added.
C16_MixedBatchRejected ==
  \E p \in Serial :
    /\ proc[p].pc = "failed" /\ proc[p].error = "Validation error"
    /\ \E i \in 1..Len(proc[p].body) : proc[p].body[i].lat > 90
    /\ \E i \in 1..Len(proc[p].body) : ~InvalidFix(proc[p].body[i])
    /\ nCalls = 2
    /\ Len(gpsPoints) = 2 /\ Len(trips) = 1 /\ Len(traversals) = 1

\* the fix q of a request is stored as a GPSPoint of a trip of its vehicle
FixRecorded(q) ==
  \E i \in 1..Len(gpsPoints) :
    /\ gpsPoints[i].ts = q.ts
    /\ gpsPoints[i].pos = q.pos
    /\ vehicles[trips[gpsPoints[i].tripId].vehicleId] = q.vehicleId

\* C17: when a request has failed while processing the trip of one vehicle,
\* the fixes of the later vehicles of its batch are recorded all the same.
C17_LaterVehiclesProcessed ==
  \A p \in Serial :
    (proc[p].kind = "ingest" /\ proc[p].pc = "failed" /\ proc[p].status = 500)
    => \A k \in 2..Len(proc[p].groups) :
         \A i \in 1..Len(proc[p].groups[k].points) :
           FixRecorded(proc[p].groups[k].points[i])

\* the latest stored fix of a trip is not earlier than the trip's endTime
EndTimeCovered(t) ==
  \E i \in 1..Len(gpsPoints) :
    gpsPoints[i].tripId = t /\ gpsPoints[i].ts >= trips[t].endTime

\* C19: whenever no request is in flight (each has completed or failed), no
\* trip has an endTime later than its latest recorded fix.
C19_EndTimeNeverAheadOfFixes ==
  Quiet => \A t \in 1..Len(trips) : EndTimeCovered(t)

\* the second request of p has completed and the store holds exactly the
\* fixes of its batch, each twice: the batch was delivered twice
Redelivered(p) ==
  /\ proc[p].kind = "ingest" /\ proc[p].pc = "done"
  /\ nCalls = 2
  /\ Len(gpsPoints) = 2 * Len(proc[p].body)
  /\ \A i \in 1..Len(gpsPoints) : \E k \in 1..Len(proc[p].body) :
       /\ gpsPoints[i].ts = proc[p].body[k].ts
       /\ gpsPoints[i].pos = proc[p].body[k].pos

\* the traversals of a corridor as a set: vehicle and interval of each
TraversalSet(corridorId) ==
  {<<trips[traversals[i].tripId].vehicleId, traversals[i].startTs,
     traversals[i].endTs>> :
     i \in {j \in 1..Len(traversals) : traversals[j].corridorId = corridorId}}

\* C18: after a batch has been delivered twice, each corridor holds every
\* traversal of the batch once, and its global sample count is the number of
\* those traversals, as after the first delivery.
C18_RedeliveryIdempotent ==
  \A p \in Serial :
    Redelivered(p) =>
      \A c \in 1..Len(corridors) :
        /\ TraversalCount(c) = Cardinality(TraversalSet(c))
        /\ \A i \in StatsRows(c, GLOBAL_BUCKET) :
             corridorStats[i].count = Cardinality(TraversalSet(c))

\* C20: once a request has been answered with success, every fix of its batch
\* is stored as a GPSPoint of a trip of its vehicle.
C20_EveryAcceptedFixRecorded ==
  \A p \in Serial :
    (proc[p].kind = "ingest" /\ proc[p].pc = "done" /\ proc[p].status = 200)
    => \A k \in 1..Len(proc[p].body) : FixRecorded(proc[p].body[k])

\* C21: whenever no request is in flight, no trip of a vehicle starts within
\* the inactivity threshold after the end of another trip of that vehicle: a
\* fix that arrived in a later request, no more than 20 minutes after the end
\* of the vehicle's trip, extended that trip and started no new one.
C21_LaterFixExtendsTrip ==
  Quiet =>
    \A t1, t2 \in 1..Len(trips) :
      (/\ t1 # t2
       /\ trips[t1].vehicleId = trips[t2].vehicleId
       /\ trips[t2].startTime >= trips[t1].endTime)
      => trips[t2].startTime - trips[t1].endTime > TRIP_GAP_MINUTES * 60

\* fixes i and j of a batch belong to one vehicle, i before j in time, with
\* no fix of that vehicle between them
TimeConsecutive(body, i, j) ==
  /\ body[i].vehicleId = body[j].vehicleId
  /\ body[i].ts < body[j].ts
  /\ ~\E k \in 1..Len(body) :
        /\ body[k].vehicleId = body[i].vehicleId
        /\ body[i].ts < body[k].ts
        /\ body[k].ts < body[j].ts

\* the fixes a and b are stored as points of one trip
SameTripStored(a, b) ==
  \E i, j \in 1..Len(gpsPoints) :
    /\ gpsPoints[i].tripId = gpsPoints[j].tripId
    /\ gpsPoints[i].ts = a.ts /\ gpsPoints[i].pos = a.pos
    /\ gpsPoints[j].ts = b.ts /\ gpsPoints[j].pos = b.pos

\* C22: after the first request has been answered with success, two
\* time-consecutive fixes of a vehicle in its batch are stored in the same trip
\* if and only if their gap is at most 20 minutes, whatever the order of the
\* fixes in the body.
C22_SegmentIffWithinThreshold ==
  \A p \in Serial :
    (proc[p].kind = "ingest" /\ proc[p].pc = "done" /\ nCalls = 1)
    => \A i, j \in 1..Len(proc[p].body) :
         TimeConsecutive(proc[p].body, i, j)
         => (SameTripStored(proc[p].body[i], proc[p].body[j])
             <=> proc[p].body[j].ts - proc[p].body[i].ts <= TRIP_GAP_MINUTES * 60)

\* C22 witness: a batch whose fixes are out of order has been ingested; the
\* pair exactly 20 minutes apart shares a trip, the pair 20 minutes and one
\* second apart does not, and two trips exist.
C22_ScrambledBatchSegmented ==
  \E p \in Serial :
    /\ proc[p].kind = "ingest" /\ proc[p].pc = "done" /\ nCalls = 1
    /\ \E i, j \in 1..Len(proc[p].body) :
         i < j /\ proc[p].body[i].ts > proc[p].body[j].ts
    /\ \E i, j \in 1..Len(proc[p].body) :
         /\ TimeConsecutive(proc[p].body, i, j)
         /\ proc[p].body[j].ts - proc[p].body[i].ts = TRIP_GAP_MINUTES * 60
         /\ SameTripStored(proc[p].body[i], proc[p].body[j])
    /\ \E i, j \in 1..Len(proc[p].body) :
         /\ TimeConsecutive(proc[p].body, i, j)
         /\ proc[p].body[j].ts - proc[p].body[i].ts = TRIP_GAP_MINUTES * 60 + 1
         /\ ~SameTripStored(proc[p].body[i], proc[p].body[j])
    /\ Len(trips) = 2

\* C23: no step moves the endTime of a stored trip to an earlier time.
C23_EndTimeOnlyExtended ==
  [][\A t \in 1..Len(trips) : trips'[t].endTime >= trips[t].endTime]_vars

\* C24: under concurrent ingestion no two corridors share a key, a traversal
\* about to be stored refers to the corridor of its key, and no request has
\* failed at the creation of a corridor.
C24_CorridorRaceHarmless ==
  /\ \A i, j \in 1..Len(corridors) :
       (/\ corridors[i].aH3 = corridors[j].aH3
        /\ corridors[i].bH3 = corridors[j].bH3
        /\ corridors[i].direction = corridors[j].direction) => i = j
  /\ \A p \in ProcIds :
       proc[p].pc = "in_travCreate"
       => CorridorIdOf(proc[p].todo[1]) = proc[p].corridorId
  /\ \A p \in ProcIds :
       ~(/\ proc[p].kind = "ingest"
         /\ proc[p].pc = "failed" /\ proc[p].status = 500
         /\ proc[p].todo # <<>>)

\* the number of stored traversals that contribute to the bucket of a row
Contributing(b) ==
  IF b.bucketHour = GLOBAL_BUCKET THEN TraversalCount(b.corridorId)
  ELSE TraversalCountInHour(b.corridorId, b.bucketHour)

\* a step of the batch recompute of p
RecomputeActs(p) == proc[p].kind = "recompute" /\ proc'[p] # proc[p]

\* the step of the batch recompute of p that reads the traversals of a
\* corridor and finds none
ReadsNoTraversals(p) ==
  /\ RecomputeActs(p)
  /\ proc[p].pc = "rb_findMany"
  /\ TraversalCount(proc[p].corridorId) = 0

\* C25: a step of a recompute never removes the row of a bucket that has
\* contributing traversals, and a recompute that finds a corridor left with
\* zero traversals by a data reset leaves no CorridorStats row of that
\* corridor.
C25_RecomputeKeepsLiveDropsStale ==
  [][\A p \in Serial :
       /\ RecomputeActs(p)
          => \A i \in 1..Len(corridorStats) :
               Contributing(corridorStats[i]) > 0
               => \E j \in 1..Len(corridorStats') :
                    /\ corridorStats'[j].corridorId = corridorStats[i].corridorId
                    /\ corridorStats'[j].bucketHour = corridorStats[i].bucketHour
       /\ ReadsNoTraversals(p)
          => StatsOf(corridorStats', proc[p].corridorId) = <<>>]_vars

\* C26: every step of a batch recompute that follows the ingestion of the same
\* traversals leaves the CorridorStats rows as they were, and each row it
\* upserts equals the stored row in count, medianTravelSec and p95SpeedKmh.
C26_RecomputeIdempotent ==
  [][\A p \in Serial :
       RecomputeActs(p)
       => /\ corridorStats' = corridorStats
          /\ proc[p].pc = "rb_upsert"
             => \E i \in 1..Len(corridorStats) :
                  corridorStats[i] = proc[p].upserts[1]]_vars

\* C26 witness: a batch recompute has processed a corridor of five or more
\* traversals that has a global row and an hourly row.
C26_RecomputedFiveTraversals ==
  \E p \in Serial :
    /\ proc[p].kind = "recompute" /\ proc[p].pc = "done"
    /\ proc[p].processed = 1
    /\ TraversalCount(1) >= MIN_SAMPLES_FOR_HOURLY
    /\ StatsRows(1, GLOBAL_BUCKET) # {}
    /\ \E h \in 0..23 : StatsRows(1, h) # {}

\* how many times the alert with this id was handed to the publish operation
TimesPublished(id) ==
  Cardinality({k \in 1..Len(published) : published[k] = id})

\* C27: every stored alert has been handed to the publish operation exactly
\* once, everything published is a stored alert, and nothing else has been
\* published: a check that did not qualify or was suppressed published nothing.
C27_CreatedAlertPublishedOnce ==
  /\ \A a \in 1..Len(alerts) : TimesPublished(alerts[a].id) = 1
  /\ \A k \in 1..Len(published) :
       \E a \in 1..Len(alerts) : alerts[a].id = published[k]
  /\ Len(published) = Len(alerts)

\* C27 witness: a call whose delay check qualified has returned without
\* creating an alert, suppressed by the alert of an earlier call, and that
\* earlier alert is the only thing published.
C27_SuppressedCallPublishedNothing ==
  \E p \in Serial :
    /\ Returned(p)
    /\ DelayQualifies(p)
    /\ proc[p].result = <<>>
    /\ PriorFor(p, "delay") # {}
    /\ Len(alerts) = 1
    /\ published = <<alerts[1].id>>

\* the request of p is inside updateCorridorBaselines
InRecompute(p) ==
  proc[p].kind = "ingest" /\ proc[p].pc \in {"ub_findMany", "ub_upsert"}

\* the request of p is inside checkAndCreateAlerts
InCheck(p) ==
  proc[p].kind = "ingest" /\ proc[p].pc \in {"ca_stats", "ca_find", "ca_create"}

\* the Traversal row of the traversal the request of p is working on
HeadRow(p) ==
  [corridorId |-> proc[p].corridorId, tripId |-> proc[p].tripId,
   startTs |-> proc[p].todo[1].startTs, endTs |-> proc[p].todo[1].endTs,
   travelSec |-> proc[p].todo[1].travelSec,
   avgSpeedKmh |-> proc[p].todo[1].avgSpeedKmh]

\* every baseline of the stored traversals of the corridor is a stored row
RecomputeWritten(corridorId) ==
  LET baselines == computeBaselines(corridorId,
                     TraversalsOf(traversals, corridorId), MIN_SAMPLES_FOR_HOURLY)
  IN  \A k \in 1..Len(baselines) :
        \E i \in 1..Len(corridorStats) : corridorStats[i] = baselines[k]

\* C28: in the processing of a trip the recompute of a traversal's corridor
\* is entered only by the step that stores the Traversal, the alert check is
\* entered only from the recompute, every recomputed row is written while the
\* check runs, and the list of traversals advances, by one, only when the
\* alert check returns.
C28_StagesInSequence ==
  [][\A p \in Serial :
       /\ (~InRecompute(p) /\ InRecompute(p)')
          => /\ proc[p].pc = "in_travCreate"
             /\ traversals' = Append(traversals, HeadRow(p))
       /\ (~InCheck(p) /\ InCheck(p)') => InRecompute(p)
       /\ InCheck(p)
          => /\ proc[p].upserts = <<>>
             /\ RecomputeWritten(proc[p].corridorId)
       /\ (InRecompute(p) \/ InCheck(p)) => traversals' = traversals
       /\ (proc[p].kind = "ingest" /\ proc[p].todo # <<>>
           /\ proc'[p].todo # proc[p].todo)
          => /\ InCheck(p)
             /\ proc'[p].todo = Tail(proc[p].todo)]_vars

\* C28 witness: the request with the 20 fixes is in the alert check of a
\* traversal after the first, with further traversals of the trip waiting, and
\* the rows of the corridor cover every stored traversal.
C28_CheckOfLaterTraversal ==
  \E p \in Serial :
    /\ InCheck(p)
    /\ Len(proc[p].body) = FlowTestFixes
    /\ Len(traversals) >= 2
    /\ Len(proc[p].todo) >= 2
    /\ traversals[Len(traversals)] = HeadRow(p)
    /\ RecomputeWritten(proc[p].corridorId)

\* the pairs <<earlier ts, later ts>> of fixes of the list with no fix between
\* them in time
ConsecutivePairs(points) ==
  {<<points[i].ts, points[j].ts>> : i, j \in 1..Len(points)} \cap
  {pair \in {<<points[i].ts, points[j].ts>> : i, j \in 1..Len(points)} :
     /\ pair[1] < pair[2]
     /\ ~\E k \in 1..Len(points) :
          pair[1] < points[k].ts /\ points[k].ts < pair[2]}

\* one event for each time-consecutive pair of the list whose gap exceeds tau,
\* none for any other pair, in chronological order
OneEventPerExceedingPair(points, tau) ==
  LET events == detectDrops(points, tau)
  IN  /\ \A k \in 1..Len(events) :
           /\ <<events[k].startTs, events[k].endTs>> \in ConsecutivePairs(points)
           /\ events[k].endTs - events[k].startTs > tau
      /\ \A pair \in ConsecutivePairs(points) :
           pair[2] - pair[1] > tau
           => Cardinality({k \in 1..Len(events) :
                 events[k].startTs = pair[1] /\ events[k].endTs = pair[2]}) = 1
      /\ \A k, l \in 1..Len(events) :
           k < l => events[k].startTs < events[l].startTs

\* C29: for the fixes of a request, as sent and as the trip being processed,
\* detectDrops returns one event per time-consecutive pair whose gap exceeds
\* tau_short and none for any other pair, in chronological order; it returns
\* the empty list for no fix and for a single fix; and for the 20 fixes 180 s
\* apart with tau_short 60 it returns 19 events, all weak_signal (transit).
C29_DetectDropsPerPair ==
  \A p \in Serial :
    proc[p].kind = "ingest"
    => /\ OneEventPerExceedingPair(proc[p].body, tauShort)
       /\ proc[p].tripQueue # <<>>
          => OneEventPerExceedingPair(proc[p].tripQueue[1], tauShort)
       /\ detectDrops(<<>>, tauShort) = <<>>
       /\ \A i \in 1..Len(proc[p].body) :
            detectDrops(<<proc[p].body[i]>>, tauShort) = <<>>
       /\ (proc[p].body = FlowTestBody /\ tauShort = TAU_SHORT_DEFAULT)
          => LET events == detectDrops(proc[p].body, tauShort)
             IN  /\ Len(events) = FlowTestFixes - 1
                 /\ \A k \in 1..Len(events) : events[k].reason = "weak_signal"

\* C29 witness: the request with the 20 fixes has been answered and the store
\* holds its 19 gap events, all weak_signal.
C29_NineteenTransitEventsStored ==
  \E p \in Serial :
    /\ proc[p].kind = "ingest" /\ proc[p].pc = "done" /\ nCalls = 1
    /\ proc[p].body = FlowTestBody
    /\ Len(drops) = FlowTestFixes - 1
    /\ \A i \in 1..Len(drops) : drops[i].reason = "weak_signal"

AfterId(ids, id) == SelectSeq(ids, LAMBDA x : x > id)

\* C31: a client that reconnected with lastEventId and is subscribed has
\* received every unresolved alert created after that id exactly once and in
\* creation order, whatever was created while the reconnect was in progress.
C31_ReconnectLosesNothing ==
  \A p \in Listeners :
    (proc[p].kind = "sse" /\ proc[p].pc = "live" /\ proc[p].lastEventId # 0)
    => AfterId(Stream(proc[p]), proc[p].lastEventId)
         = MissedAlerts(proc[p].lastEventId)

\* C32: whenever no request is in flight after requests executed one at a
\* time, every corridor with a stored traversal has exactly one global row
\* and its count is the number of stored traversals of the corridor, and every
\* hourly row counts the corridor's traversals that start in its UTC hour and
\* that count is at least 5.
C32_RowsCountStoredTraversals ==
  Quiet =>
    \A c \in 1..Len(corridors) :
      /\ TraversalCount(c) > 0
         => /\ Cardinality(StatsRows(c, GLOBAL_BUCKET)) = 1
            /\ \A i \in StatsRows(c, GLOBAL_BUCKET) :
                 corridorStats[i].count = TraversalCount(c)
      /\ \A h \in 0..23 : \A i \in StatsRows(c, h) :
           /\ corridorStats[i].count = TraversalCountInHour(c, h)
           /\ corridorStats[i].count >= MIN_SAMPLES_FOR_HOURLY

\* C32 witness: after six requests a corridor has six traversals, a global row
\* of count 6 and an hourly row of count 5 for hour 10.
C32_SixTraversalsTwoRows ==
  /\ Quiet
  /\ nCalls = 6
  /\ TraversalCount(1) = 6
  /\ \E i \in StatsRows(1, GLOBAL_BUCKET) : corridorStats[i].count = 6
  /\ \E i \in StatsRows(1, 10) : corridorStats[i].count = 5

\* the stored traversals of a corridor, by position in the table
TraversalIds(corridorId) ==
  {i \in 1..Len(traversals) : traversals[i].corridorId = corridorId}

\* the request of p is creating an alert for the traversal it has stored
CreatesAlert(p) == proc[p].kind = "ingest" /\ proc[p].pc = "ca_create"

\* the traversal the request of p is working on is the first one the corridor
\* ever got
FirstOfCorridor(p) ==
  LET ids == TraversalIds(proc[p].corridorId)
  IN  /\ ids # {}
      /\ \A i \in ids : (\A j \in ids : i <= j) => traversals[i] = HeadRow(p)

FlagsOverspeed(p) ==
  /\ proc[p].kind = "ingest"
  /\ proc[p].pc \in {"ca_find", "ca_create"}
  /\ proc[p].chk = "overspeed"

\* the stored traversals of the bucket of the baseline the check of p applies
BucketTraversals(p) ==
  IF proc[p].applicable[1].bucketHour = GLOBAL_BUCKET
  THEN TraversalCount(proc[p].corridorId)
  ELSE TraversalCountInHour(proc[p].corridorId, proc[p].applicable[1].bucketHour)

OverspeedAlerts == {i \in 1..Len(alerts) : alerts[i].type = "overspeed"}

\* the fewest samples whose nearest-rank 95th percentile is not the maximum
FullBucket == 100 \div (100 - 95)

\* C34: in sequential ingestion no overspeed alert is created for a traversal
\* while the applicable baseline bucket, which includes that traversal, holds
\* fewer than 20 traversals.
C34_NoOverspeedBelowTwentySamples ==
  /\ \A p \in ProcIds : FlagsOverspeed(p) => BucketTraversals(p) >= FullBucket
  /\ OverspeedAlerts # {} => TraversalCount(1) >= FullBucket

\* the nineteenth traversal of the corridor is the fastest one stored and its
\* check returned with a baseline of nineteen samples and no overspeed alert
C34_FastestOfNineteenNotFlagged ==
  /\ Quiet
  /\ Len(traversals) = FullBucket - 1
  /\ TraversalCount(1) = FullBucket - 1
  /\ \A i \in 1..(Len(traversals) - 1) :
       traversals[i].avgSpeedKmh < traversals[Len(traversals)].avgSpeedKmh
  /\ \E p \in ProcIds : /\ proc[p].kind = "ingest"
                        /\ proc[p].pc = "done"
                        /\ proc[p].applicable # <<>>
                        /\ proc[p].applicable[1].count = FullBucket - 1
  /\ OverspeedAlerts = {}

\* with twenty samples the fastest traversal is flagged
C34_TwentiethFlagged ==
  OverspeedAlerts # {} /\ TraversalCount(1) = FullBucket

\* the batch check of p has responded
BatchDone(p) == proc[p].kind = "batch" /\ proc[p].pc = "done"

\* C39: the alertsCreated figure reported by POST /api/compute/alerts equals
\* the number of alerts created during that run.
C39_AlertsCreatedCountsAlerts ==
  \A p \in ProcIds : BatchDone(p) => proc[p].alertsCreated = proc[p].pushed

\* a control call of the given name is made in this step
Calls(name) == sim'.calls = sim.calls + 1 /\ sim'.lastCall = name

\* C35: start() while the status is running fails with 'Simulator is already
\* running' and leaves the configuration, the status counters and the abort
\* controller of the running replay unchanged.
C35_StartWhileRunningRejected ==
  [][(sim.status.isRunning /\ Calls("start")) =>
       /\ sim'.thrown = "Simulator is already running"
       /\ sim'.config = sim.config
       /\ sim'.currentSpeed = sim.currentSpeed
       /\ sim'.status = sim.status
       /\ sim'.abortController = sim.abortController
       /\ sim'.aborted = sim.aborted
       /\ sim'.loops = sim.loops]_vars

\* a start() was rejected while a replay with processed points was running
C35_RejectedMidReplay ==
  /\ sim.lastCall = "start"
  /\ sim.thrown = "Simulator is already running"
  /\ sim.status.isRunning
  /\ sim.status.processedPoints >= 1
  /\ sim.started = 1

\* the replay loop k has been started and has not reached its end
Active(k) == sim.loops[k].pc \notin {"off", "ended"}

\* the replay loop k issues the fetch of ingestPoint in this step
IssuesFetch(k) ==
  /\ sim'.loops[k] # sim.loops[k]
  /\ sim'.loops[k].pc = "fetch"

\* C36: after forceReset() and until the next start(), the replay loop ingests
\* no further point and the status stays at its reset values.
C36_ForceResetHaltsReplay ==
  [][(sim.lastCall = "forceReset" /\ sim'.lastCall = "forceReset") =>
       /\ \A k \in ProcIds : ~IssuesFetch(k)
       /\ sim'.status = ResetStatus]_vars

\* C37: after stop() followed by start(), the loop of the earlier run issues no
\* further ingest while the new run is active, and its steps do not set
\* isRunning to false.
C37_EarlierLoopYields ==
  [][\A k \in ProcIds :
       (k < sim.started /\ Active(sim.started) /\ sim'.loops[k] # sim.loops[k]) =>
         /\ ~IssuesFetch(k)
         /\ sim.status.isRunning => sim'.status.isRunning]_vars

\* C38: after stop() and until the next start(), the replay loop issues no
\* further ingest and isRunning is false.
C38_StopHaltsReplay ==
  [][(sim.lastCall = "stop" /\ sim'.lastCall = "stop") =>
       /\ \A k \in ProcIds : ~IssuesFetch(k)
       /\ ~sim'.status.isRunning]_vars

====
